---------------------------- MODULE Spec2Model ----------------------------
(***************************************************************************)
(* COLIBRI segment reservations: the Reservation entity with its index     *)
(* list (package segment), the compliance classifier and the reservation   *)
(* keeper (package reservationstore).                                      *)
(*                                                                         *)
(* Positions in an index list are the Go slice positions (0-based); the    *)
(* TLA+ sequence element of position p is Indices[p + 1].                  *)
(***************************************************************************)
EXTENDS Integers, Sequences, FiniteSets, TLC

(***************************************************************************)
(* Bounds of the model.                                                    *)
(***************************************************************************)
\* longest index list the mutator specification builds
MaxLen == 3
\* expiration times and "until" instants of the mutator specification: 0..MaxExp
MaxExp == 1
\* index numbers passed to the mutators: 15 (the ring's end) and 0..MaxIdx
MaxIdx == 2
\* entries of the keeper: 0..MaxEntries
MaxEntries == 2
\* predicate-matching paths the router returns for a destination: 0..MaxPaths
MaxPaths == 2
\* reservations handed to matchRsvsWithConfiguration: 0..MaxRsvs
MaxRsvs == 2
\* configurations handed to matchRsvsWithConfiguration: 0..MaxConfs
MaxConfs == 2
\* invocations of manager.Run in one behaviour
MaxRuns == 3
\* ticks of the keeper in one behaviour of the specification of several ticks
MaxTicks == 3
\* hop fields of a token: MinHops..MaxHops
MaxHops == 3

(***************************************************************************)
(* Index numbers: a 4-bit ring.                                            *)
(***************************************************************************)
RingSize == 16

IdxAdd(a, b) == (a + b) % RingSize

IdxSub(a, b) == (a - b + RingSize) % RingSize

(***************************************************************************)
(* Index states, errors, the index record.                                 *)
(***************************************************************************)
IndexTemporary == "Temporary"

IndexPending == "Pending"

IndexActive == "Active"

NoErr == "nil"

ErrNotFound == "NotFound"

ErrState == "State"

ErrValidation == "Validation"

\* a nil *Index
NilIndex ==
  [Idx |-> -1, Expiration |-> -1, State |-> "nil", MinBW |-> 0, MaxBW |-> 0, AllocBW |-> 0]

\* segment.NewIndex(idx, expTime, state, minBW, maxBW, allocBW, tok)
MkIndex(idx, expTime, state, minBW, maxBW, allocBW) ==
  [Idx |-> idx, Expiration |-> expTime, State |-> state,
   MinBW |-> minBW, MaxBW |-> maxBW, AllocBW |-> allocBW]

\* segment.NewReservation: no indices, activeIndex = -1
NewReservation == [Indices |-> <<>>, activeIndex |-> -1]

(***************************************************************************)
(* base.ValidateIndices and base.FindIndex.                                *)
(***************************************************************************)
\* at most RingSize indices, expirations non-decreasing, index numbers
\* ascending modulo 16, AllocBW within [MinBW, MaxBW]
ValidateIndices(indices) ==
  /\ Len(indices) <= RingSize
  /\ \A i \in 1..Len(indices) :
       /\ indices[i].MinBW <= indices[i].AllocBW
       /\ indices[i].AllocBW <= indices[i].MaxBW
  /\ \A i \in 1..(Len(indices) - 1) :
       /\ indices[i].Expiration <= indices[i + 1].Expiration
       /\ IdxSub(indices[i + 1].Idx, indices[i].Idx) = 1

\* the slice position of the index with number idx, or NotFound
FindIndex(indices, idx) ==
  LET hits == {p \in 0..(Len(indices) - 1) : indices[p + 1].Idx = idx}
  IN  IF hits = {}
      THEN [pos |-> 0, err |-> ErrNotFound]
      ELSE [pos |-> CHOOSE p \in hits : \A q \in hits : p <= q, err |-> NoErr]

(***************************************************************************)
(* Reservation: queries.                                                   *)
(***************************************************************************)
ActiveIndex(r) ==
  IF r.activeIndex = -1 THEN NilIndex ELSE r.Indices[r.activeIndex + 1]

\* a slip: the successor is taken without the ring
NextIndexToRenew_NoWrap(r) ==
  LET last == IF Len(r.Indices) > 0
              THEN r.Indices[Len(r.Indices)].Idx
              ELSE -1
  IN  last + 1

NextIndexToRenew(r) ==
  LET last == IF Len(r.Indices) > 0
              THEN r.Indices[Len(r.Indices)].Idx
              ELSE IdxSub(0, 1)
  IN  IdxAdd(last, 1)

NextIndexToActivate(r) ==
  IF Len(r.Indices) = 0 THEN NilIndex
  ELSE IF r.activeIndex < 0 THEN r.Indices[Len(r.Indices)]
  ELSE IF r.activeIndex + 1 < Len(r.Indices) THEN r.Indices[r.activeIndex + 2]
  ELSE NilIndex

(***************************************************************************)
(* Reservation: mutators.  Each yields the reservation after the call and  *)
(* the error returned.                                                     *)
(***************************************************************************)
\* a slip: the index is appended to the list itself, then the list is validated
addIndex_NoTrial(r, index) ==
  LET newIndices == Append(r.Indices, index)
  IN  [rsv |-> [r EXCEPT !.Indices = newIndices],
       err |-> IF ~ValidateIndices(newIndices) THEN ErrValidation ELSE NoErr]

\* a slip: the trial list is not validated
addIndex_Unchecked(r, index) ==
  [rsv |-> [r EXCEPT !.Indices = Append(r.Indices, index)], err |-> NoErr]

addIndex(r, index) ==
  LET newIndices == Append(r.Indices, index)
  IN  IF ~ValidateIndices(newIndices)
      THEN [rsv |-> r, err |-> ErrValidation]
      ELSE [rsv |-> [r EXCEPT !.Indices = newIndices], err |-> NoErr]

\* a slip: the index is built with the minimum as its allocation
NewIndex_AllocIgnored(r, idx, expTime, minBW, maxBW, allocBW) ==
  addIndex(r, MkIndex(idx, expTime, IndexTemporary, minBW, maxBW, minBW))

NewIndex(r, idx, expTime, minBW, maxBW, allocBW) ==
  addIndex(r, MkIndex(idx, expTime, IndexTemporary, minBW, maxBW, allocBW))

SetIndexConfirmed(r, idx) ==
  LET f == FindIndex(r.Indices, idx)
  IN  IF f.err # NoErr THEN [rsv |-> r, err |-> f.err]
      ELSE IF r.Indices[f.pos + 1].State = IndexActive
      THEN [rsv |-> r, err |-> ErrState]
      ELSE [rsv |-> [r EXCEPT !.Indices[f.pos + 1].State = IndexPending],
            err |-> NoErr]

\* a slip: the confirmed/active check is missing
SetIndexActive_NoStateCheck(r, idx) ==
  LET f == FindIndex(r.Indices, idx)
  IN  IF f.err # NoErr THEN [rsv |-> r, err |-> f.err]
      ELSE IF r.activeIndex = f.pos THEN [rsv |-> r, err |-> NoErr]
      ELSE IF r.activeIndex > -1 /\ r.activeIndex > f.pos
      THEN [rsv |-> r, err |-> ErrState]
      ELSE LET kept == SubSeq(r.Indices, f.pos + 1, Len(r.Indices))
           IN  [rsv |-> [Indices |-> [kept EXCEPT ![1].State = IndexActive],
                         activeIndex |-> 0],
                err |-> NoErr]

\* a slip: the indices before the target are kept
SetIndexActive_NoPrune(r, idx) ==
  LET f == FindIndex(r.Indices, idx)
  IN  IF f.err # NoErr THEN [rsv |-> r, err |-> f.err]
      ELSE IF r.activeIndex = f.pos THEN [rsv |-> r, err |-> NoErr]
      ELSE IF r.Indices[f.pos + 1].State # IndexPending
              /\ r.Indices[f.pos + 1].State # IndexActive
      THEN [rsv |-> r, err |-> ErrState]
      ELSE IF r.activeIndex > -1 /\ r.activeIndex > f.pos
      THEN [rsv |-> r, err |-> ErrState]
      ELSE [rsv |-> [Indices |-> [r.Indices EXCEPT ![f.pos + 1].State = IndexActive],
                     activeIndex |-> f.pos],
            err |-> NoErr]

\* a slip: the target is pruned together with its predecessors
SetIndexActive_PruneTarget(r, idx) ==
  LET f == FindIndex(r.Indices, idx)
  IN  IF f.err # NoErr THEN [rsv |-> r, err |-> f.err]
      ELSE IF r.activeIndex = f.pos THEN [rsv |-> r, err |-> NoErr]
      ELSE IF r.Indices[f.pos + 1].State # IndexPending
              /\ r.Indices[f.pos + 1].State # IndexActive
      THEN [rsv |-> r, err |-> ErrState]
      ELSE IF r.activeIndex > -1 /\ r.activeIndex > f.pos
      THEN [rsv |-> r, err |-> ErrState]
      ELSE IF f.pos + 2 > Len(r.Indices)
      THEN [rsv |-> [Indices |-> <<>>, activeIndex |-> -1], err |-> NoErr]
      ELSE LET kept == SubSeq(r.Indices, f.pos + 2, Len(r.Indices))
           IN  [rsv |-> [Indices |-> [kept EXCEPT ![1].State = IndexActive],
                         activeIndex |-> 0],
                err |-> NoErr]

\* a slip: an index number the list does not hold is taken as already active
SetIndexActive_Lenient(r, idx) ==
  LET f == FindIndex(r.Indices, idx)
  IN  IF f.err # NoErr THEN [rsv |-> r, err |-> NoErr]
      ELSE IF r.activeIndex = f.pos THEN [rsv |-> r, err |-> NoErr]
      ELSE IF r.Indices[f.pos + 1].State # IndexPending
              /\ r.Indices[f.pos + 1].State # IndexActive
      THEN [rsv |-> r, err |-> ErrState]
      ELSE IF r.activeIndex > -1 /\ r.activeIndex > f.pos
      THEN [rsv |-> r, err |-> ErrState]
      ELSE LET kept == SubSeq(r.Indices, f.pos + 1, Len(r.Indices))
           IN  [rsv |-> [Indices |-> [kept EXCEPT ![1].State = IndexActive],
                         activeIndex |-> 0],
                err |-> NoErr]

\* a slip: activating the index that is already active is refused
SetIndexActive_Refuse(r, idx) ==
  LET f == FindIndex(r.Indices, idx)
  IN  IF f.err # NoErr THEN [rsv |-> r, err |-> f.err]
      ELSE IF r.activeIndex = f.pos THEN [rsv |-> r, err |-> ErrState]
      ELSE IF r.Indices[f.pos + 1].State # IndexPending
              /\ r.Indices[f.pos + 1].State # IndexActive
      THEN [rsv |-> r, err |-> ErrState]
      ELSE IF r.activeIndex > -1 /\ r.activeIndex > f.pos
      THEN [rsv |-> r, err |-> ErrState]
      ELSE LET kept == SubSeq(r.Indices, f.pos + 1, Len(r.Indices))
           IN  [rsv |-> [Indices |-> [kept EXCEPT ![1].State = IndexActive],
                         activeIndex |-> 0],
                err |-> NoErr]

SetIndexActive(r, idx) ==
  LET f == FindIndex(r.Indices, idx)
  IN  IF f.err # NoErr THEN [rsv |-> r, err |-> f.err]
      ELSE IF r.activeIndex = f.pos THEN [rsv |-> r, err |-> NoErr]
      ELSE IF r.Indices[f.pos + 1].State # IndexPending
              /\ r.Indices[f.pos + 1].State # IndexActive
      THEN [rsv |-> r, err |-> ErrState]
      ELSE IF r.activeIndex > -1 /\ r.activeIndex > f.pos
      THEN [rsv |-> r, err |-> ErrState]
      ELSE LET kept == SubSeq(r.Indices, f.pos + 1, Len(r.Indices))
           IN  [rsv |-> [Indices |-> [kept EXCEPT ![1].State = IndexActive],
                         activeIndex |-> 0],
                err |-> NoErr]

\* a slip: the state is rolled back and activeIndex is left
SetIndexInactive_KeepsPosition(r) ==
  IF r.activeIndex = 0
  THEN [Indices |-> [r.Indices EXCEPT ![1].State = IndexPending], activeIndex |-> 0]
  ELSE r

SetIndexInactive(r) ==
  IF r.activeIndex = 0
  THEN [Indices |-> [r.Indices EXCEPT ![1].State = IndexPending], activeIndex |-> -1]
  ELSE r

\* a slip: the target itself is kept
RemoveIndex_Exclusive(r, idx) ==
  LET f == FindIndex(r.Indices, idx)
  IN  IF f.err # NoErr THEN [rsv |-> r, err |-> f.err]
      ELSE [rsv |-> [Indices |-> SubSeq(r.Indices, f.pos + 1, Len(r.Indices)),
                     activeIndex |-> IF r.activeIndex > f.pos
                                     THEN r.activeIndex - f.pos
                                     ELSE -1],
            err |-> NoErr]

RemoveIndex(r, idx) ==
  LET f == FindIndex(r.Indices, idx)
  IN  IF f.err # NoErr THEN [rsv |-> r, err |-> f.err]
      ELSE [rsv |-> [Indices |-> SubSeq(r.Indices, f.pos + 2, Len(r.Indices)),
                     activeIndex |-> IF r.activeIndex > f.pos
                                     THEN r.activeIndex - (f.pos + 1)
                                     ELSE -1],
            err |-> NoErr]

(***************************************************************************)
(* Index filters (package segment) and the keeper's configuration.         *)
(***************************************************************************)
\* Indices.Filter(filters...) is SelectSeq with the conjunction of the filters
ByMinBW(index, minBW) == index.MinBW >= minBW

ByMaxBW(index, maxBW) == index.MaxBW <= maxBW

\* keeps the confirmed indices: Pending or Active
NotConfirmed(index) == index.State \in {IndexPending, IndexActive}

\* a slip: an index expiring at the instant is kept
ByExpiration_Inclusive(index, until) == index.Expiration >= until

\* keeps the indices that expire after the instant
ByExpiration(index, until) == index.Expiration > until

\* an index can replace the active one iff there is none, or it is strictly
\* newer in ring order
SwitchableFrom(index, active) ==
  active = NilIndex \/ IdxSub(index.Idx, active.Idx) > 0

NotSwitchableFrom(index, active) == ~SwitchableFrom(index, active)

NeedsIndices == "NeedsIndices"

NeedsActivation == "NeedsActivation"

Compliant == "Compliant"

\* a keeper entry: a configuration (its bandwidth range) and a reservation
Entry(c, r) == [conf |-> c, rsv |-> r]

\* a slip: unconfirmed (Temporary) indices are not filtered out
compliance_NoStateFilter(e, until) ==
  LET idxs == SelectSeq(e.rsv.Indices,
                LAMBDA i : /\ ByMinBW(i, e.conf.minBW)
                           /\ ByMaxBW(i, e.conf.maxBW)
                           /\ ByExpiration(i, until))
  IN  IF Len(idxs) = 0 THEN NeedsIndices
      ELSE IF Len(SelectSeq(idxs, LAMBDA i : NotSwitchableFrom(i, ActiveIndex(e.rsv)))) = 0
      THEN NeedsActivation
      ELSE Compliant

\* a slip: the expirations are not looked at
compliance_ExpiryUnchecked(e, until) ==
  LET idxs == SelectSeq(e.rsv.Indices,
                LAMBDA i : /\ ByMinBW(i, e.conf.minBW)
                           /\ ByMaxBW(i, e.conf.maxBW)
                           /\ NotConfirmed(i))
  IN  IF Len(idxs) = 0 THEN NeedsIndices
      ELSE IF Len(SelectSeq(idxs, LAMBDA i : NotSwitchableFrom(i, ActiveIndex(e.rsv)))) = 0
      THEN NeedsActivation
      ELSE Compliant

compliance(e, until) ==
  LET idxs == SelectSeq(e.rsv.Indices,
                LAMBDA i : /\ ByMinBW(i, e.conf.minBW)
                           /\ ByMaxBW(i, e.conf.maxBW)
                           /\ NotConfirmed(i)
                           /\ ByExpiration(i, until))
  IN  IF Len(idxs) = 0 THEN NeedsIndices
      ELSE IF Len(SelectSeq(idxs, LAMBDA i : NotSwitchableFrom(i, ActiveIndex(e.rsv)))) = 0
      THEN NeedsActivation
      ELSE Compliant

(***************************************************************************)
(* The keeper (package reservationstore): durations in seconds.            *)
(***************************************************************************)
sleepAtLeast == 4

sleepAtMost == 5 * 60

minDuration == 2 * sleepAtMost

newIndexMinDuration == 2 * minDuration

\* time.Time{}
ZeroTime == -1

\* errors of the keeper's collaborators
ErrRouter == "PathsTo"

ErrNoPath == "NoPath"

ErrSetup == "SetupRequest"

ErrActivate == "ActivateRequest"

\* the bandwidth range every configuration of the keeper model asks for
KeeperConf == [minBW |-> 1, maxBW |-> 2]

\* base.NewRequest / seg.SetupReq: the fields the model follows; path is the
\* place of the request's path in the filtered list of the router's paths
\* (0: the steps of the reservation itself)
Request(index, expTime, path) == [index |-> index, exp |-> expTime, path |-> path]

NoRequest == Request(-1, ZeroTime, 0)

\* entry.PrepareSetupRequest: index number 0
PrepareSetupRequest(nowv, expTime, path) == Request(0, expTime, path)

\* a slip: index number 0, as in a setup request
PrepareRenewalRequest_FirstIndex(r, nowv, expTime) == Request(0, expTime, 0)

\* entry.PrepareRenewalRequest: the next index to renew
PrepareRenewalRequest(r, nowv, expTime) == Request(NextIndexToRenew(r), expTime, 0)

(***************************************************************************)
(* The store behind manager.SetupRequest.  outcome is what the store does:  *)
(* "ok", "initFail" (InitSegmentReservation returns an error and changes    *)
(* nothing), "confirmErr" (InitConfirmSegmentReservation returns an error), *)
(* "confirmFailure" (it returns a failure response and no error).           *)
(***************************************************************************)
SetupOutcomes == {"ok", "initFail", "confirmErr", "confirmFailure"}

\* store.InitSegmentReservation: a new Temporary index on the reservation of
\* the request (a new reservation when there is none), with the bandwidth
\* range of the request; the store grants the maximum
InitSegmentReservation(r, has, c, req, outcome) ==
  LET base == IF has THEN r ELSE NewReservation
      added == NewIndex(base, req.index, req.exp, c.minBW, c.maxBW, c.maxBW)
  IN  IF outcome = "initFail" \/ added.err # NoErr
      THEN [rsv |-> r, has |-> has, err |-> ErrSetup]
      ELSE [rsv |-> added.rsv, has |-> TRUE, err |-> NoErr]

\* store.InitConfirmSegmentReservation: the index becomes Pending on success
InitConfirmSegmentReservation(r, req, outcome) ==
  IF outcome = "ok"
  THEN [rsv |-> SetIndexConfirmed(r, req.index).rsv, err |-> NoErr, success |-> TRUE]
  ELSE [rsv |-> r, err |-> IF outcome = "confirmErr" THEN ErrSetup ELSE NoErr,
        success |-> FALSE]

\* manager.SetupRequest
SetupRequest(r, has, c, req, outcome) ==
  LET init == InitSegmentReservation(r, has, c, req, outcome)
  IN  IF init.err # NoErr
      THEN init
      ELSE LET conf == InitConfirmSegmentReservation(init.rsv, req, outcome)
           IN  [rsv |-> conf.rsv, has |-> TRUE, err |-> conf.err]

(***************************************************************************)
(* keeper.keepReservation, cut at its calls of the collaborators.  An       *)
(* entry's task is a record: pc (where the task stands), tnow (the now it   *)
(* read), time and err (its slots of OneShot's times and errs), and what it *)
(* did in this tick: class (the compliance it found), hadRsv and pre (the   *)
(* reservation the entry had when the task began), nSetup and nActivate (the*)
(* requests it issued), allOk (every collaborator call succeeded), npaths   *)
(* and left (the paths askNewReservation got and has not tried), setupReq   *)
(* and actReq (the last request of each kind it issued), ret (what the last *)
(* manager.SetupRequest returned to it), was (the compliance its task of    *)
(* the tick before found).                                                  *)
(***************************************************************************)
\* what manager.SetupRequest returned: to askNewReservation ("new") or to
\* askNewIndices ("renew"), for the path of the request, with or without
\* req.Reservation, the error, and the state the requested index is left in
Returned(kind, req, res) ==
  [kind |-> kind, path |-> req.path, has |-> res.has, err |-> res.err,
   state |-> IF res.has /\ FindIndex(res.rsv.Indices, req.index).err = NoErr
             THEN res.rsv.Indices[FindIndex(res.rsv.Indices, req.index).pos + 1].State
             ELSE "none"]

NoReturn == [kind |-> "none", path |-> 0, has |-> FALSE, err |-> NoErr, state |-> "none"]

\* the task returns: times[i], errs[i] = now.Add(newIndexMinDuration), nil or
\* time.Time{}, err
Return(e, err) ==
  [e EXCEPT !.pc = "done", !.err = err,
            !.time = IF err = NoErr THEN e.tnow + newIndexMinDuration ELSE ZeroTime]

\* a slip: compliance is asked about now, not about the end of the sleep
ComplianceUntil_Now(nowv) == nowv

\* the instant keepReservation passes to compliance
ComplianceUntil(nowv) == nowv + minDuration

\* keeper.activateIndex up to its call of ActivateRequest
activateIndex(e) ==
  LET target == NextIndexToActivate(e.rsv)
      res == SetIndexActive(e.rsv, target.Idx)
  IN  IF target = NilIndex THEN Return(e, "panic")
      ELSE IF res.err # NoErr THEN Return(e, res.err)
      ELSE [e EXCEPT !.rsv = res.rsv, !.pc = "activate", !.nActivate = @ + 1,
                     !.actReq = Request(target.Idx, ZeroTime, 0)]

\* keeper.askNewIndices up to its call of SetupRequest
askNewIndices(e, nowv) ==
  [e EXCEPT !.pc = "renew", !.nSetup = @ + 1,
            !.setupReq = PrepareRenewalRequest(e.rsv, nowv, nowv + newIndexMinDuration)]

\* the switch of keepReservation on the compliance of the entry
KeepSwitch(e, nowv) ==
  LET c == compliance(Entry(KeeperConf, e.rsv), ComplianceUntil(nowv))
      f == [e EXCEPT !.class = c]
  IN  IF c = Compliant THEN Return(f, NoErr)
      ELSE IF c = NeedsIndices THEN askNewIndices(f, nowv)
      ELSE activateIndex(f)

\* a slip: askNewReservation returns no error when no path is left
TryNextPath_Silent(e) ==
  IF e.left = 0
  THEN Return(e, NoErr)
  ELSE [e EXCEPT !.pc = "setup", !.left = @ - 1, !.nSetup = @ + 1,
                 !.setupReq = PrepareSetupRequest(e.tnow, e.tnow + newIndexMinDuration,
                                                  e.npaths - e.left + 1)]

\* keeper.askNewReservation: the request for the next path to try, or the
\* error when none is left
TryNextPath(e) ==
  IF e.left = 0
  THEN Return(e, ErrNoPath)
  ELSE [e EXCEPT !.pc = "setup", !.left = @ - 1, !.nSetup = @ + 1,
                 !.setupReq = PrepareSetupRequest(e.tnow, e.tnow + newIndexMinDuration,
                                                  e.npaths - e.left + 1)]

\* keepReservation begins: routerOk and npaths are what PathsTo and the
\* predicate yield for an entry without reservation
keepReservation(e, nowv, routerOk, npaths) ==
  LET b == [e EXCEPT !.tnow = nowv, !.hadRsv = e.has, !.pre = e.rsv, !.allOk = TRUE]
  IN  IF ~b.has
      THEN IF ~routerOk
           THEN Return([b EXCEPT !.allOk = FALSE], ErrRouter)
           ELSE TryNextPath([b EXCEPT !.npaths = npaths, !.left = npaths])
      ELSE KeepSwitch(b, nowv)

\* a slip: keepReservation returns once it has the new reservation
AfterSetup_NoSwitch(e, nowv, outcome) ==
  LET res == SetupRequest(e.rsv, FALSE, KeeperConf, e.setupReq, outcome)
      f == [e EXCEPT !.allOk = @ /\ outcome = "ok",
                     !.ret = Returned("new", e.setupReq, res)]
  IN  IF res.has
      THEN Return([f EXCEPT !.rsv = res.rsv, !.has = TRUE, !.left = 0], res.err)
      ELSE TryNextPath(f)

\* a slip: a reservation that comes with an error is dropped and the next
\* path is tried
AfterSetup_DropOnError(e, nowv, outcome) ==
  LET res == SetupRequest(e.rsv, FALSE, KeeperConf, e.setupReq, outcome)
      f == [e EXCEPT !.allOk = @ /\ outcome = "ok",
                     !.ret = Returned("new", e.setupReq, res)]
  IN  IF res.has /\ res.err = NoErr
      THEN KeepSwitch([f EXCEPT !.rsv = res.rsv, !.has = TRUE, !.left = 0], nowv)
      ELSE TryNextPath(f)

\* SetupRequest returns to askNewReservation
AfterSetup(e, nowv, outcome) ==
  LET res == SetupRequest(e.rsv, FALSE, KeeperConf, e.setupReq, outcome)
      f == [e EXCEPT !.allOk = @ /\ outcome = "ok",
                     !.ret = Returned("new", e.setupReq, res)]
  IN  IF res.has
      THEN LET g == [f EXCEPT !.rsv = res.rsv, !.has = TRUE, !.left = 0]
           IN  IF res.err # NoErr THEN Return(g, res.err) ELSE KeepSwitch(g, nowv)
      ELSE TryNextPath(f)

\* SetupRequest returns to askNewIndices
AfterRenew(e, outcome) ==
  LET res == SetupRequest(e.rsv, TRUE, KeeperConf, e.setupReq, outcome)
  IN  Return([e EXCEPT !.rsv = res.rsv, !.allOk = @ /\ outcome = "ok",
                       !.ret = Returned("renew", e.setupReq, res)], res.err)

\* a slip: no rollback when ActivateRequest fails
AfterActivate_NoRollback(e, ok) ==
  IF ok THEN Return(e, NoErr) ELSE Return([e EXCEPT !.allOk = FALSE], ErrActivate)

\* ActivateRequest returns to activateIndex
AfterActivate(e, ok) ==
  IF ok
  THEN Return(e, NoErr)
  ELSE Return([e EXCEPT !.rsv = SetIndexInactive(e.rsv), !.allOk = FALSE], ErrActivate)

\* errs.Coalesce(): an error iff some entry returned one
Coalesce(es) == \E i \in 1..Len(es) : es[i].err # NoErr

\* a slip: the wake-up is not capped at now + sleepAtMost
OneShot_NoCap(es, nowv) ==
  IF Coalesce(es)
  THEN [time |-> nowv + sleepAtLeast, err |-> TRUE]
  ELSE LET times == {es[i].time : i \in 1..Len(es)} \cup {nowv + 2 * newIndexMinDuration}
           wakeupAtLatest == CHOOSE t \in times : \A u \in times : t <= u
       IN  [time |-> IF wakeupAtLatest - nowv < sleepAtLeast
                     THEN nowv + sleepAtLeast
                     ELSE wakeupAtLatest,
            err |-> FALSE]

\* a slip: an error of an entry does not shorten the sleep
OneShot_ErrIgnored(es, nowv) ==
  [time |-> nowv + sleepAtMost, err |-> Coalesce(es)]

\* keeper.OneShot after wg.Wait(): the wake-up time and the error
OneShot(es, nowv) ==
  IF Coalesce(es)
  THEN [time |-> nowv + sleepAtLeast, err |-> TRUE]
  ELSE LET times == {es[i].time : i \in 1..Len(es)} \cup {nowv + sleepAtMost}
           wakeupAtLatest == CHOOSE t \in times : \A u \in times : t <= u
       IN  [time |-> IF wakeupAtLatest - nowv < sleepAtLeast
                     THEN nowv + sleepAtLeast
                     ELSE wakeupAtLatest,
            err |-> FALSE]

(***************************************************************************)
(* The reservations an entry may hold when the keeper starts (those        *)
(* matched from storage), each built with the mutators.                    *)
(***************************************************************************)
\* an index that expires when the longest sleep after the tick ends
ExpSoon == sleepAtMost

\* an index that outlives a renewal
ExpFar == 2 * newIndexMinDuration

\* indices <<expTime, maxBW, state>> numbered 0, 1, ... appended, confirmed
\* and activated with the mutators
RECURSIVE Built(_, _)
Built(r, descr) ==
  IF descr = <<>> THEN r
  ELSE LET d == Head(descr)
           idx == NextIndexToRenew(r)
           a == NewIndex(r, idx, d[1], KeeperConf.minBW, d[2], KeeperConf.minBW).rsv
           b == IF d[3] = IndexTemporary THEN a ELSE SetIndexConfirmed(a, idx).rsv
           c == IF d[3] = IndexActive THEN SetIndexActive(b, idx).rsv ELSE b
       IN  Built(c, Tail(descr))

InitRsvs ==
  { Built(NewReservation, d) : d \in {
      <<<<ExpFar, 2, IndexPending>>>>,
      <<<<ExpFar, 2, IndexActive>>>>,
      <<<<ExpSoon, 2, IndexActive>>>>,
      <<<<ExpFar, 3, IndexActive>>>>,
      <<<<ExpSoon, 2, IndexActive>>, <<ExpFar, 2, IndexPending>>>>,
      <<<<ExpSoon, 2, IndexActive>>, <<ExpFar, 2, IndexTemporary>>,
        <<ExpFar, 2, IndexPending>>>> } }

\* an entry as matchRsvsWithConfiguration leaves it, and its task before a tick
NewEntry(has, r) ==
  [has |-> has, rsv |-> r, pc |-> "start", tnow |-> 0, time |-> ZeroTime,
   err |-> NoErr, class |-> "none", hadRsv |-> has, pre |-> r, nSetup |-> 0,
   nActivate |-> 0, allOk |-> TRUE, npaths |-> 0, left |-> 0,
   setupReq |-> NoRequest, actReq |-> NoRequest, ret |-> NoReturn, was |-> "none"]

InitEntries ==
  {NewEntry(FALSE, NewReservation)} \cup {NewEntry(TRUE, r) : r \in InitRsvs}

\* times := make([]time.Time, n), errs := make(serrors.List, n): slot i holds
\* times[i] and errs[i], and how often the pair was assigned
ZeroSlot == [time |-> ZeroTime, err |-> NoErr, writes |-> 0]

NewSlots(n) == [i \in 1..n |-> ZeroSlot]

\* a slip: the tasks share one slot
WriteSlot_Shared(sl, i, e) ==
  IF e.pc = "done"
  THEN [sl EXCEPT ![1] = [time |-> e.time, err |-> e.err, writes |-> @.writes + 1]]
  ELSE sl

\* times[i], errs[i] = k.keepReservation(ctx, e), once the task of entry i
\* has returned
WriteSlot(sl, i, e) ==
  IF e.pc = "done"
  THEN [sl EXCEPT ![i] = [time |-> e.time, err |-> e.err, writes |-> @.writes + 1]]
  ELSE sl

\* what OneShot last returned, and the now it returned at
NoOneShot == [time |-> ZeroTime, err |-> FALSE, at |-> ZeroTime]

\* The tasks of a tick read the clock as the tick begins.  The time the tick
\* takes is seen when OneShot reads the clock again after wg.Wait(): none, or
\* enough for the entries' times to fall below the cap, or below the floor.
Stalls == {0, newIndexMinDuration - sleepAtMost + sleepAtLeast, newIndexMinDuration}

(***************************************************************************)
(* Matching the reservations of the store with the configurations.  Of a    *)
(* reservation and of a configuration the model keeps the identity (the Go  *)
(* pointer) and the attributes findCompatibleConfiguration reads; a         *)
(* predicate is the set of interface sequences it accepts.                  *)
(***************************************************************************)
MatchRsv(id, dst, pathType, split, endProps, ifaces) ==
  [id |-> id, dst |-> dst, pathType |-> pathType, split |-> split,
   endProps |-> endProps, ifaces |-> ifaces]

MatchConf(id, dst, pathType, predicate, splitCls, endProps) ==
  [id |-> id, dst |-> dst, pathType |-> pathType, predicate |-> predicate,
   splitCls |-> splitCls, endProps |-> endProps]

\* a nil *seg.Reservation
NilRsv == MatchRsv(0, "", "", 0, "", "")

\* pathpol.Sequence.EvalInterfaces
EvalInterfaces(predicate, ifaces) == ifaces \in predicate

\* a slip: the predicate is not asked
Compatible_NoPredicate(r, c) ==
  /\ ~(r.dst # c.dst)
  /\ ~(r.pathType # c.pathType)
  /\ ~(r.split # c.splitCls)
  /\ ~(r.endProps # c.endProps)

\* the cases of the switch of findCompatibleConfiguration: none applies
Compatible(r, c) ==
  /\ ~(r.dst # c.dst)
  /\ ~(r.pathType # c.pathType)
  /\ ~(r.split # c.splitCls)
  /\ ~(r.endProps # c.endProps)
  /\ ~(~EvalInterfaces(c.predicate, r.ifaces))

\* the loop of findCompatibleConfiguration from slice position i on
RECURSIVE findCompatibleFrom(_, _, _)
findCompatibleFrom(r, conf, i) ==
  IF i >= Len(conf) THEN -1
  ELSE IF Compatible(r, conf[i + 1]) THEN i
  ELSE findCompatibleFrom(r, conf, i + 1)

\* a slip: the configurations are searched from the end
findCompatibleConfiguration_Last(r, conf) ==
  IF \E i \in 1..Len(conf) : Compatible(r, conf[i])
  THEN (CHOOSE i \in 1..Len(conf) :
          /\ Compatible(r, conf[i])
          /\ \A j \in (i + 1)..Len(conf) : ~Compatible(r, conf[j])) - 1
  ELSE -1

\* a slip: the traffic split is not compared
findCompatibleConfiguration_NoSplit(r, conf) ==
  IF \E i \in 1..Len(conf) : Compatible([r EXCEPT !.split = conf[i].splitCls], conf[i])
  THEN (CHOOSE i \in 1..Len(conf) :
          /\ Compatible([r EXCEPT !.split = conf[i].splitCls], conf[i])
          /\ \A j \in 1..(i - 1) :
               ~Compatible([r EXCEPT !.split = conf[j].splitCls], conf[j])) - 1
  ELSE -1

findCompatibleConfiguration(r, conf) == findCompatibleFrom(r, conf, 0)

\* append(conf[:i], conf[i+1:]...)
WithoutPosition(conf, i) ==
  [k \in 1..(Len(conf) - 1) |-> IF k <= i THEN conf[k] ELSE conf[k + 1]]

\* a slip: the loop ends at the first reservation without a compatible
\* configuration (break for continue)
RECURSIVE MatchLoop_Break(_, _, _)
MatchLoop_Break(rsvs, conf, es) ==
  IF rsvs = <<>> THEN [conf |-> conf, entries |-> es]
  ELSE LET r == Head(rsvs)
           i == findCompatibleConfiguration(r, conf)
       IN  IF i < 0
           THEN [conf |-> conf, entries |-> es]
           ELSE MatchLoop_Break(Tail(rsvs), WithoutPosition(conf, i),
                                Append(es, Entry(conf[i + 1], r)))

\* the first loop of matchRsvsWithConfiguration over the reservations left
RECURSIVE MatchLoop(_, _, _)
MatchLoop(rsvs, conf, es) ==
  IF rsvs = <<>> THEN [conf |-> conf, entries |-> es]
  ELSE LET r == Head(rsvs)
           i == findCompatibleConfiguration(r, conf)
       IN  IF i < 0
           THEN MatchLoop(Tail(rsvs), conf, es)
           ELSE MatchLoop(Tail(rsvs), WithoutPosition(conf, i),
                          Append(es, Entry(conf[i + 1], r)))

\* a slip: a matched configuration stays in the pool
matchRsvsWithConfiguration_NoRemove(rsvs, conf) ==
  LET Matched(k) == findCompatibleConfiguration(rsvs[k], conf) >= 0
      hit == SelectSeq([k \in 1..Len(rsvs) |-> k], Matched)
  IN  [k \in 1..Len(hit) |->
         Entry(conf[findCompatibleConfiguration(rsvs[hit[k]], conf) + 1], rsvs[hit[k]])]
      \o [k \in 1..Len(conf) |-> Entry(conf[k], NilRsv)]

\* a slip: the loop runs over the configurations, each taking the first
\* compatible reservation, and a reservation taken stays in the list
matchRsvsWithConfiguration_PerConf(rsvs, conf) ==
  LET First(c) == CHOOSE k \in 1..Len(rsvs) :
                    /\ Compatible(rsvs[k], c)
                    /\ \A j \in 1..(k - 1) : ~Compatible(rsvs[j], c)
  IN  [k \in 1..Len(conf) |->
         IF \E j \in 1..Len(rsvs) : Compatible(rsvs[j], conf[k])
         THEN Entry(conf[k], rsvs[First(conf[k])])
         ELSE Entry(conf[k], NilRsv)]

matchRsvsWithConfiguration(rsvs, conf) ==
  LET m == MatchLoop(rsvs, conf, <<>>)
  IN  m.entries \o [k \in 1..Len(m.conf) |-> Entry(m.conf[k], NilRsv)]

(***************************************************************************)
(* The reservations and configurations the matching is run on: r1 and r1b  *)
(* agree with c1 and its copy; each further reservation differs from r1 in  *)
(* one attribute; c2 asks for the traffic split of r2; c3 is c1 with a      *)
(* predicate that also accepts the interfaces of r6.                        *)
(***************************************************************************)
RsvPool ==
  { MatchRsv(1, "dst2", "up", 1, "startLocal", "if1"),
    MatchRsv(2, "dst2", "up", 2, "startLocal", "if1"),
    MatchRsv(3, "dst3", "up", 1, "startLocal", "if1"),
    MatchRsv(4, "dst2", "down", 1, "startLocal", "if1"),
    MatchRsv(5, "dst2", "up", 1, "startEndLocal", "if1"),
    MatchRsv(6, "dst2", "up", 1, "startLocal", "if11"),
    MatchRsv(7, "dst2", "up", 1, "startLocal", "if1") }

ConfPool ==
  { MatchConf(1, "dst2", "up", {"if1"}, 1, "startLocal"),
    MatchConf(2, "dst2", "up", {"if1"}, 2, "startLocal"),
    MatchConf(3, "dst2", "up", {"if1", "if11"}, 1, "startLocal"),
    MatchConf(4, "dst2", "up", {"if1"}, 1, "startLocal") }

\* the lists of at most n distinct elements of S
ListsOf(S, n) ==
  { q \in UNION {[1..k -> S] : k \in 0..n} :
      \A i, j \in 1..Len(q) : i # j => q[i] # q[j] }

\* matchRsvsWithConfiguration not called
NoMatch == [rsvs |-> <<>>, confs |-> <<>>, entries |-> <<>>, done |-> FALSE]

(***************************************************************************)
(* The data-plane path of a reservation (DeriveColibriPath).  A token is   *)
(* followed by its list of hop fields, a path by its R flag, its hop field  *)
(* count, its current hop field and its list of hop fields.                 *)
(***************************************************************************)
\* Validate: a reservation has two steps or more, and a hop field for each
MinHops == 2

UpPath == "up"

DownPath == "down"

CorePath == "core"

\* reservation.HopField / colpath.HopField
HopField(ingress, egress, mac) == [Ingress |-> ingress, Egress |-> egress, Mac |-> mac]

\* the hop fields a token is made of
HopPool == {HopField(0, 1, "a"), HopField(2, 3, "b"), HopField(4, 0, "c")}

\* a nil *colpath.ColibriPathMinimal
NilPath ==
  [R |-> FALSE, HFCount |-> -1, CurrHF |-> -1, HopFields |-> <<>>,
   CurrHopField |-> HopField(0, 0, "")]

\* &colpath.HopField{IngressId: hf.Ingress, EgressId: hf.Egress, Mac: ...}
CopyHopField(hf) == HopField(hf.Ingress, hf.Egress, hf.Mac)

\* colpath.ColibriPath{InfoField: r.deriveInfoField(), HopFields: hopFields}:
\* the R flag is not set, the current hop field is the first
ColibriPath(token, hopFields) ==
  [R |-> FALSE, HFCount |-> Len(token), CurrHF |-> 0, HopFields |-> hopFields]

\* ColibriPath.Reverse: the R flag toggled, the hop fields in the opposite
\* order, the current hop field mirrored
Reverse(p) ==
  [R |-> ~p.R, HFCount |-> p.HFCount, CurrHF |-> p.HFCount - p.CurrHF - 1,
   HopFields |-> [k \in 1..Len(p.HopFields) |-> p.HopFields[Len(p.HopFields) + 1 - k]]]

\* ColibriPath.ToMinimal: the info field, the current hop field apart, and
\* the hop fields in their serialized order
ToMinimal(p) ==
  [R |-> p.R, HFCount |-> p.HFCount, CurrHF |-> p.CurrHF, HopFields |-> p.HopFields,
   CurrHopField |-> p.HopFields[p.CurrHF + 1]]

\* has: the reservation has an active index; token: its token's hop fields
deriveColibriPathAtSource(has, token) ==
  IF ~has THEN NilPath
  ELSE ToMinimal(ColibriPath(token,
         [i \in 1..Len(token) |-> CopyHopField(token[i])]))

deriveColibriPathAtDestination(has, token) ==
  IF ~has THEN NilPath
  ELSE LET lhf == Len(token)
       IN  ToMinimal(Reverse(ColibriPath(token,
             [i \in 1..lhf |-> CopyHopField(token[lhf - (i - 1)])])))

\* a slip: the path type is not looked at
DeriveColibriPath_AtSource(pathType, has, token) ==
  deriveColibriPathAtSource(has, token)

DeriveColibriPath(pathType, has, token) ==
  IF pathType = DownPath
  THEN deriveColibriPathAtDestination(has, token)
  ELSE deriveColibriPathAtSource(has, token)

\* the tokens of the model
Tokens == UNION {[1..k -> HopPool] : k \in MinHops..MaxHops}

\* no call of DeriveColibriPath
NoDerive ==
  [pathType |-> UpPath, has |-> FALSE, token |-> <<>>, done |-> FALSE, path |-> NilPath]

(***************************************************************************)
(* The manager (package reservationstore): manager.Run and its five        *)
(* subtasks.  Durations in seconds.                                        *)
(***************************************************************************)
\* Run: m.wakeupTime = m.Now().Add(2 * time.Second) when the store is not ready
notReadyRetry == 2

\* the sweeps: wakeupTime = now.Add(8 * time.Second) when the store gives none
sweepRetry == 8

\* m.wakeupListSegs = time.Now().Add(10 * time.Minute)
listSegsPeriod == 10 * 60

\* m.wakeupListE2Es = time.Now().Add(5 * time.Minute)
listE2EsPeriod == 5 * 60

Subtasks == {"listSegs", "listE2Es", "keeper", "expirer", "admission"}

\* NewColibriManager: wakeupTime just before now, the sub-deadlines zero
NewManager(nowv) ==
  [wakeupTime |-> nowv - 1, wakeupListSegs |-> ZeroTime, wakeupListE2Es |-> ZeroTime,
   wakeupExpirer |-> ZeroTime, wakeupAdmissionList |-> ZeroTime]

\* a Run: whether it is under way, the now it read, the store's Ready(), the
\* gate it stopped at ("early", "notReady") or "passed", the subtasks that
\* have finished, those that called their collaborator, those whose
\* collaborator returned an error, the next deadline the store gave to each
\* sweep (wakeupTime of DeleteExpiredIndices, DeleteExpiredAdmissionEntries),
\* and the count of Runs so far
NoGiven == [expirer |-> ZeroTime, admission |-> ZeroTime]

NoRun ==
  [state |-> "idle", now |-> 0, ready |-> FALSE, gate |-> "none", done |-> {},
   called |-> {}, failed |-> {}, given |-> NoGiven, n |-> 0]

\* a slip: the store is not asked whether it is ready
Gate_NoReady(nowv, wakeupTime, ready) ==
  IF nowv < wakeupTime THEN "early" ELSE "passed"

\* the two gates of Run
Gate(nowv, wakeupTime, ready) ==
  IF nowv < wakeupTime THEN "early"
  ELSE IF ~ready THEN "notReady"
  ELSE "passed"

\* the loop of findEarliest over times[1:], earliest so far e
RECURSIVE EarliestFrom(_, _, _)
EarliestFrom(times, i, e) ==
  IF i > Len(times) THEN e
  ELSE EarliestFrom(times, i + 1, IF times[i] < e THEN times[i] ELSE e)

\* a slip: the first deadline is taken
findEarliest_First(times) == IF Len(times) = 0 THEN ZeroTime ELSE times[1]

findEarliest(times) ==
  IF Len(times) = 0 THEN ZeroTime ELSE EarliestFrom(times, 2, times[1])

\* what a sweep of the store returns as next deadline: none, or an instant
SweepDeadlines(nowv) == {ZeroTime, nowv + 1}

\* what OneShot returns: with an error now + sleepAtLeast, else up to
\* now + sleepAtMost
OneShotResults(nowv) ==
  { [time |-> nowv + sleepAtLeast, err |-> TRUE],
    [time |-> nowv + sleepAtLeast, err |-> FALSE],
    [time |-> nowv + sleepAtMost, err |-> FALSE] }

(***************************************************************************)
(* The mutator specification: one reservation, the calls made on it, and   *)
(* a record of the last call.                                              *)
(***************************************************************************)
VARIABLES
  rsv,          \* the reservation of the mutator specification
  last,         \* the last call on it: its name, arguments, error and result
  now,          \* manager.Now()
  entries,      \* keeper.entries, each with its task of the current tick
  phase,        \* "tick": OneShot runs; "sleep": the manager waits
  wakeupKeeper, \* manager.wakeupKeeper
  oneShot,      \* what OneShot last returned
  slots,        \* times and errs of OneShot: a slot for each entry
  match,        \* a call of matchRsvsWithConfiguration: arguments and result
  derive,       \* a call of DeriveColibriPath: the reservation and the result
  mgr,          \* manager.wakeupTime and the sub-deadlines but wakeupKeeper
  run           \* the Run of the manager under way or last finished

vars == <<rsv, last>>

kvars == <<now, entries, phase, wakeupKeeper, oneShot, slots>>

mvars == <<match, derive>>

gvars == <<mgr, run>>

allvars ==
  <<rsv, last, now, entries, phase, wakeupKeeper, oneShot, slots, match, derive, mgr,
    run>>

NoConf == [minBW |-> 0, maxBW |-> 0]

\* removed: how many indices the call took off the list; again: the call
\* repeats the successful call before it (for compliance: it follows a call
\* on the same entry that returned Compliant, with until later by less than
\* minDuration / 2, the instants of this specification being seconds); same: it left the reservation as
\* it was; inRange, inOrder: what NewIndex was
\* given (allocBW within [minBW, maxBW]; the number after the last index's
\* and an expiration not before the last index's)
Call(op, idx, err, removed) ==
  [op |-> op, idx |-> idx, err |-> err, removed |-> removed,
   conf |-> NoConf, until |-> 0, res |-> "none",
   again |-> FALSE, same |-> FALSE, inRange |-> TRUE, inOrder |-> TRUE]

Removed(pre, post) ==
  IF Len(pre.Indices) > Len(post.Indices)
  THEN Len(pre.Indices) - Len(post.Indices)
  ELSE 0

\* index numbers a caller passes
IdxInputs == {RingSize - 1} \cup 0..MaxIdx

ExpTimes == 0..MaxExp

\* <<minBW, maxBW, allocBW>> a caller passes; the last two break the range
BWInputs == {<<1, 1, 1>>, <<0, 2, 1>>, <<1, 1, 2>>, <<1, 1, 0>>}

\* bandwidth ranges of the configurations: minBW <= maxBW (parseInitial)
Confs == {[minBW |-> 1, maxBW |-> 2], [minBW |-> 0, maxBW |-> 1],
          [minBW |-> 0, maxBW |-> 2]}

\* the manager, constructed and not run
ManagerIdle ==
  /\ mgr = NewManager(0)
  /\ run = NoRun

\* the keeper, not started
KeeperIdle ==
  /\ now = 0
  /\ entries = <<>>
  /\ phase = "sleep"
  /\ wakeupKeeper = ZeroTime
  /\ oneShot = NoOneShot
  /\ slots = <<>>

Init ==
  /\ rsv = NewReservation
  /\ last = Call("none", 0, NoErr, 0)
  /\ KeeperIdle
  /\ match = NoMatch
  /\ derive = NoDerive
  /\ ManagerIdle

DoNewIndex ==
  /\ Len(rsv.Indices) < MaxLen
  /\ \E idx \in IdxInputs, expTime \in ExpTimes, bw \in BWInputs :
       LET res == NewIndex(rsv, idx, expTime, bw[1], bw[2], bw[3])
           n == Len(rsv.Indices)
       IN  /\ rsv' = res.rsv
           /\ last' = [Call("NewIndex", idx, res.err, Removed(rsv, res.rsv)) EXCEPT
                         !.same = (res.rsv = rsv),
                         !.inRange = (bw[1] <= bw[3] /\ bw[3] <= bw[2]),
                         !.inOrder = (n > 0 =>
                                        /\ idx = (rsv.Indices[n].Idx + 1) % RingSize
                                        /\ expTime >= rsv.Indices[n].Expiration)]
  /\ UNCHANGED <<kvars, mvars, gvars>>

DoSetIndexConfirmed ==
  \E idx \in IdxInputs :
    LET res == SetIndexConfirmed(rsv, idx)
    IN  /\ rsv' = res.rsv
        /\ last' = Call("SetIndexConfirmed", idx, res.err, Removed(rsv, res.rsv))
        /\ UNCHANGED <<kvars, mvars, gvars>>

DoSetIndexActive ==
  \E idx \in IdxInputs :
    LET res == SetIndexActive(rsv, idx)
    IN  /\ rsv' = res.rsv
        /\ last' = [Call("SetIndexActive", idx, res.err, Removed(rsv, res.rsv)) EXCEPT
                      !.again = (last.op = "SetIndexActive" /\ last.idx = idx
                                 /\ last.err = NoErr),
                      !.same = (res.rsv = rsv)]
        /\ UNCHANGED <<kvars, mvars, gvars>>

DoSetIndexInactive ==
  /\ rsv' = SetIndexInactive(rsv)
  /\ last' = Call("SetIndexInactive", 0, NoErr, 0)
  /\ UNCHANGED <<kvars, mvars, gvars>>

DoRemoveIndex ==
  \E idx \in IdxInputs :
    LET res == RemoveIndex(rsv, idx)
    IN  /\ rsv' = res.rsv
        /\ last' = Call("RemoveIndex", idx, res.err, Removed(rsv, res.rsv))
        /\ UNCHANGED <<kvars, mvars, gvars>>

\* compliance(entry, until) of an entry holding the reservation
DoCompliance ==
  \E c \in Confs, until \in ExpTimes :
    /\ rsv' = rsv
    /\ last' = [Call("compliance", 0, NoErr, 0) EXCEPT
                  !.conf = c, !.until = until,
                  !.again = (/\ last.op = "compliance" /\ last.conf = c
                             /\ last.res = Compliant
                             /\ until >= last.until
                             /\ 2 * (until - last.until) < minDuration),
                  !.res = compliance(Entry(c, rsv), until)]
    /\ UNCHANGED <<kvars, mvars, gvars>>

Next ==
  \/ DoNewIndex
  \/ DoSetIndexConfirmed
  \/ DoSetIndexActive
  \/ DoSetIndexInactive
  \/ DoRemoveIndex
  \/ DoCompliance

Spec == Init /\ [][Next]_allvars

(***************************************************************************)
(* The keeper specification: one tick.  The manager's keeper subtask calls  *)
(* OneShot, the tasks of the entries run interleaved, OneShot returns, the  *)
(* manager stores the wake-up time and sleeps until it.                     *)
(***************************************************************************)
\* sequences of n entries
EntriesOfLen(n) == [1..n -> InitEntries]

KInit ==
  /\ rsv = NewReservation
  /\ last = Call("none", 0, NoErr, 0)
  /\ now = 0
  /\ entries \in UNION {EntriesOfLen(n) : n \in 0..MaxEntries}
  /\ phase = "tick"
  /\ wakeupKeeper = 0
  /\ oneShot = NoOneShot
  /\ slots = NewSlots(Len(entries))
  /\ match = NoMatch
  /\ derive = NoDerive
  /\ ManagerIdle

\* the task of entry i begins keepReservation
KeepStart(i) ==
  /\ phase = "tick"
  /\ entries[i].pc = "start"
  /\ \E routerOk \in BOOLEAN, npaths \in 0..MaxPaths :
       /\ entries' = [entries EXCEPT ![i] = keepReservation(@, now, routerOk, npaths)]
       /\ slots' = WriteSlot(slots, i, entries'[i])
  /\ UNCHANGED <<mvars, gvars, rsv, last, now, phase, wakeupKeeper, oneShot>>

\* SetupRequest of askNewReservation returns
SetupReturns(i) ==
  /\ entries[i].pc = "setup"
  /\ \E outcome \in SetupOutcomes :
       /\ entries' = [entries EXCEPT ![i] = AfterSetup(@, now, outcome)]
       /\ slots' = WriteSlot(slots, i, entries'[i])
  /\ UNCHANGED <<mvars, gvars, rsv, last, now, phase, wakeupKeeper, oneShot>>

\* SetupRequest of askNewIndices returns
RenewReturns(i) ==
  /\ entries[i].pc = "renew"
  /\ \E outcome \in SetupOutcomes :
       /\ entries' = [entries EXCEPT ![i] = AfterRenew(@, outcome)]
       /\ slots' = WriteSlot(slots, i, entries'[i])
  /\ UNCHANGED <<mvars, gvars, rsv, last, now, phase, wakeupKeeper, oneShot>>

\* ActivateRequest returns
ActivateReturns(i) ==
  /\ entries[i].pc = "activate"
  /\ \E ok \in BOOLEAN :
       /\ entries' = [entries EXCEPT ![i] = AfterActivate(@, ok)]
       /\ slots' = WriteSlot(slots, i, entries'[i])
  /\ UNCHANGED <<mvars, gvars, rsv, last, now, phase, wakeupKeeper, oneShot>>

\* wg.Wait() returns, OneShot computes the wake-up time and the manager's
\* keeper subtask stores it (manager.Run logs the error and goes on)
OneShotReturns ==
  /\ phase = "tick"
  /\ \A i \in 1..Len(entries) : entries[i].pc = "done"
  /\ \E stall \in Stalls :
       LET res == OneShot(slots, now + stall)
       IN  /\ now' = now + stall
           /\ oneShot' = [time |-> res.time, err |-> res.err, at |-> now + stall]
           /\ wakeupKeeper' = res.time
  /\ phase' = "sleep"
  /\ UNCHANGED <<mvars, gvars, rsv, last, entries, slots>>

\* the manager sleeps until wakeupKeeper
Sleep ==
  /\ phase = "sleep"
  /\ now < wakeupKeeper
  /\ now' = wakeupKeeper
  /\ UNCHANGED <<mvars, gvars, rsv, last, entries, phase, wakeupKeeper, oneShot, slots>>

KNext ==
  \/ \E i \in 1..Len(entries) : KeepStart(i)
  \/ \E i \in 1..Len(entries) : SetupReturns(i)
  \/ \E i \in 1..Len(entries) : RenewReturns(i)
  \/ \E i \in 1..Len(entries) : ActivateReturns(i)
  \/ OneShotReturns
  \/ Sleep

SpecKeeper == KInit /\ [][KNext]_allvars

(***************************************************************************)
(* The matching specification: NewKeeper hands the reservations of the      *)
(* store and the parsed configurations to matchRsvsWithConfiguration.       *)
(***************************************************************************)
MInit ==
  /\ rsv = NewReservation
  /\ last = Call("none", 0, NoErr, 0)
  /\ KeeperIdle
  /\ \E rsvs \in ListsOf(RsvPool, MaxRsvs), confs \in ListsOf(ConfPool, MaxConfs) :
       match = [NoMatch EXCEPT !.rsvs = rsvs, !.confs = confs]
  /\ derive = NoDerive
  /\ ManagerIdle

DoMatch ==
  /\ ~match.done
  /\ match' = [match EXCEPT !.done = TRUE,
                 !.entries = matchRsvsWithConfiguration(match.rsvs, match.confs)]
  /\ UNCHANGED <<vars, kvars, gvars, derive>>

MNext == DoMatch

SpecMatch == MInit /\ [][MNext]_allvars

(***************************************************************************)
(* The keeper over several ticks, with collaborators that succeed: the      *)
(* router returns one path that matches, every SetupRequest and every       *)
(* ActivateRequest is granted, and the manager calls OneShot again at the   *)
(* wake-up time the last OneShot returned.  The tasks of a tick are         *)
(* scheduled until they return, and the manager keeps running.              *)
(***************************************************************************)
\* an index the keeper has just asked for
ExpNew == newIndexMinDuration

\* the reservations the entries may hold at the first tick: indices as the
\* keeper asks for them, none expiring after now + newIndexMinDuration
TickRsvs ==
  { Built(NewReservation, d) : d \in {
      <<<<ExpNew, 2, IndexPending>>>>,
      <<<<ExpNew, 2, IndexActive>>>>,
      <<<<ExpSoon, 2, IndexActive>>>>,
      <<<<ExpNew, 3, IndexActive>>>>,
      <<<<ExpSoon, 2, IndexActive>>, <<ExpNew, 2, IndexPending>>>>,
      <<<<ExpSoon, 2, IndexActive>>, <<ExpNew, 2, IndexTemporary>>>>,
      <<<<ExpSoon, 2, IndexActive>>, <<ExpNew, 2, IndexTemporary>>,
        <<ExpNew, 2, IndexPending>>>> } }

TickEntries ==
  {NewEntry(FALSE, NewReservation)} \cup {NewEntry(TRUE, r) : r \in TickRsvs}

TInit ==
  /\ rsv = NewReservation
  /\ last = Call("none", 0, NoErr, 0)
  /\ now = 0
  /\ entries \in UNION {[1..n -> TickEntries] : n \in 1..MaxEntries}
  /\ phase = "sleep"
  /\ wakeupKeeper = ZeroTime
  /\ oneShot = NoOneShot
  /\ slots = NewSlots(Len(entries))
  /\ match = NoMatch
  /\ derive = NoDerive
  /\ ManagerIdle

\* the entry as the next tick finds it
NextTask(e) == [NewEntry(e.has, e.rsv) EXCEPT !.was = e.class]

\* a Run of the manager at the wake-up time of the keeper: its keeper
\* subtask calls OneShot, which starts a task for each entry
TickBegins ==
  /\ phase = "sleep"
  /\ run.n < MaxTicks
  /\ now' = IF now < wakeupKeeper THEN wakeupKeeper ELSE now
  /\ phase' = "tick"
  /\ entries' = [i \in 1..Len(entries) |-> NextTask(entries[i])]
  /\ slots' = NewSlots(Len(entries))
  /\ run' = [run EXCEPT !.n = @ + 1]
  /\ UNCHANGED <<vars, mvars, mgr, wakeupKeeper, oneShot>>

\* the task of entry i begins keepReservation; the router returns a path
TaskStarts(i) ==
  /\ phase = "tick"
  /\ entries[i].pc = "start"
  /\ entries' = [entries EXCEPT ![i] = keepReservation(@, now, TRUE, 1)]
  /\ slots' = WriteSlot(slots, i, entries'[i])
  /\ UNCHANGED <<mvars, gvars, rsv, last, now, phase, wakeupKeeper, oneShot>>

\* the SetupRequest of askNewReservation is granted
SetupGranted(i) ==
  /\ entries[i].pc = "setup"
  /\ entries' = [entries EXCEPT ![i] = AfterSetup(@, now, "ok")]
  /\ slots' = WriteSlot(slots, i, entries'[i])
  /\ UNCHANGED <<mvars, gvars, rsv, last, now, phase, wakeupKeeper, oneShot>>

\* the SetupRequest of askNewIndices is granted
RenewGranted(i) ==
  /\ entries[i].pc = "renew"
  /\ entries' = [entries EXCEPT ![i] = AfterRenew(@, "ok")]
  /\ slots' = WriteSlot(slots, i, entries'[i])
  /\ UNCHANGED <<mvars, gvars, rsv, last, now, phase, wakeupKeeper, oneShot>>

\* the ActivateRequest is granted
ActivateGranted(i) ==
  /\ entries[i].pc = "activate"
  /\ entries' = [entries EXCEPT ![i] = AfterActivate(@, TRUE)]
  /\ slots' = WriteSlot(slots, i, entries'[i])
  /\ UNCHANGED <<mvars, gvars, rsv, last, now, phase, wakeupKeeper, oneShot>>

\* wg.Wait() returns, OneShot returns and the manager stores the wake-up time
TickEnds ==
  /\ phase = "tick"
  /\ \A i \in 1..Len(entries) : entries[i].pc = "done"
  /\ LET res == OneShot(slots, now)
     IN  /\ oneShot' = [time |-> res.time, err |-> res.err, at |-> now]
         /\ wakeupKeeper' = res.time
  /\ phase' = "sleep"
  /\ UNCHANGED <<mvars, gvars, rsv, last, now, entries, slots>>

TNext ==
  \/ TickBegins
  \/ \E i \in 1..Len(entries) : TaskStarts(i)
  \/ \E i \in 1..Len(entries) : SetupGranted(i)
  \/ \E i \in 1..Len(entries) : RenewGranted(i)
  \/ \E i \in 1..Len(entries) : ActivateGranted(i)
  \/ TickEnds

SpecTicks == TInit /\ [][TNext]_allvars /\ WF_allvars(TNext)

(***************************************************************************)
(* The manager specification: the periodic runner invokes Run again and     *)
(* again; a Run that passes its gates launches the five subtasks, which run *)
(* interleaved, and returns when all have finished.  The clock moves        *)
(* between Runs and, by a second at most, during a Run.                     *)
(***************************************************************************)
GInit ==
  /\ rsv = NewReservation
  /\ last = Call("none", 0, NoErr, 0)
  /\ now = 0
  /\ entries = <<>>
  /\ phase = "sleep"
  /\ wakeupKeeper = ZeroTime
  /\ oneShot = NoOneShot
  /\ slots = <<>>
  /\ match = NoMatch
  /\ derive = NoDerive
  /\ ManagerIdle

\* Run is invoked: the gates, then wg.Add(5) and the five go statements
RunStart ==
  /\ run.state = "idle"
  /\ run.n < MaxRuns
  /\ \E ready \in BOOLEAN :
       LET g == Gate(now, mgr.wakeupTime, ready)
           r == [run EXCEPT !.n = @ + 1, !.now = now, !.ready = ready, !.gate = g,
                            !.done = {}, !.called = {}, !.failed = {},
                            !.given = NoGiven]
       IN  /\ run' = IF g = "passed" THEN [r EXCEPT !.state = "running"] ELSE r
           /\ mgr' = IF g = "notReady"
                     THEN [mgr EXCEPT !.wakeupTime = now + notReadyRetry]
                     ELSE mgr
  /\ UNCHANGED <<vars, mvars, now, entries, phase, wakeupKeeper, oneShot, slots>>

\* a subtask that has not finished
Pending(task) == run.state = "running" /\ task \notin run.done

\* the subtask finishes, having called its collaborator or not, with or
\* without error (the errors of the two reports are logged as the others are
\* and are left out)
Finished(task, called, failed) ==
  [run EXCEPT !.done = @ \cup {task},
              !.called = IF called THEN @ \cup {task} ELSE @,
              !.failed = IF failed THEN @ \cup {task} ELSE @]

\* periodic report of segment reservations
SubListSegs ==
  /\ Pending("listSegs")
  /\ run' = Finished("listSegs", TRUE, FALSE)
  /\ mgr' = [mgr EXCEPT !.wakeupListSegs = now + listSegsPeriod]
  /\ UNCHANGED <<vars, mvars, now, entries, phase, wakeupKeeper, oneShot, slots>>

\* periodic report of e2e reservations
SubListE2Es ==
  /\ Pending("listE2Es")
  /\ run' = Finished("listE2Es", TRUE, FALSE)
  /\ mgr' = [mgr EXCEPT !.wakeupListE2Es = now + listE2EsPeriod]
  /\ UNCHANGED <<vars, mvars, now, entries, phase, wakeupKeeper, oneShot, slots>>

\* a slip: OneShot is called whatever wakeupKeeper is
SubKeeper_Ungated ==
  /\ Pending("keeper")
  /\ \E res \in OneShotResults(now) :
       /\ run' = Finished("keeper", TRUE, res.err)
       /\ wakeupKeeper' = res.time
  /\ UNCHANGED <<vars, mvars, now, entries, phase, oneShot, slots, mgr>>

\* keep segment reservations: OneShot, gated by wakeupKeeper
SubKeeper ==
  /\ Pending("keeper")
  /\ IF run.now < wakeupKeeper
     THEN /\ run' = Finished("keeper", FALSE, FALSE)
          /\ UNCHANGED wakeupKeeper
     ELSE \E res \in OneShotResults(now) :
            /\ run' = Finished("keeper", TRUE, res.err)
            /\ wakeupKeeper' = res.time
  /\ UNCHANGED <<vars, mvars, now, entries, phase, oneShot, slots, mgr>>

\* a slip: the sweep returns when the store returns an error
SubExpirer_ErrorReturns ==
  /\ Pending("expirer")
  /\ IF run.now < mgr.wakeupExpirer
     THEN /\ run' = Finished("expirer", FALSE, FALSE)
          /\ UNCHANGED mgr
     ELSE \E wakeupTime \in SweepDeadlines(now), failed \in BOOLEAN :
            /\ run' = [Finished("expirer", TRUE, failed) EXCEPT
                         !.given.expirer = wakeupTime]
            /\ mgr' = IF failed THEN mgr
                      ELSE [mgr EXCEPT !.wakeupExpirer =
                              IF wakeupTime = ZeroTime THEN run.now + sweepRetry
                              ELSE wakeupTime]
  /\ UNCHANGED <<vars, mvars, now, entries, phase, wakeupKeeper, oneShot, slots>>

\* removal of expired indices, gated by wakeupExpirer
SubExpirer ==
  /\ Pending("expirer")
  /\ IF run.now < mgr.wakeupExpirer
     THEN /\ run' = Finished("expirer", FALSE, FALSE)
          /\ UNCHANGED mgr
     ELSE \E wakeupTime \in SweepDeadlines(now), failed \in BOOLEAN :
            /\ run' = [Finished("expirer", TRUE, failed) EXCEPT
                         !.given.expirer = wakeupTime]
            /\ mgr' = [mgr EXCEPT !.wakeupExpirer =
                          IF wakeupTime = ZeroTime THEN run.now + sweepRetry
                          ELSE wakeupTime]
  /\ UNCHANGED <<vars, mvars, now, entries, phase, wakeupKeeper, oneShot, slots>>

\* removal of expired admission entries, gated by wakeupAdmissionList
SubAdmission ==
  /\ Pending("admission")
  /\ IF run.now < mgr.wakeupAdmissionList
     THEN /\ run' = Finished("admission", FALSE, FALSE)
          /\ UNCHANGED mgr
     ELSE \E wakeupTime \in SweepDeadlines(now), failed \in BOOLEAN :
            /\ run' = [Finished("admission", TRUE, failed) EXCEPT
                         !.given.admission = wakeupTime]
            /\ mgr' = [mgr EXCEPT !.wakeupAdmissionList =
                          IF wakeupTime = ZeroTime THEN run.now + sweepRetry
                          ELSE wakeupTime]
  /\ UNCHANGED <<vars, mvars, now, entries, phase, wakeupKeeper, oneShot, slots>>

\* wg.Wait() returns
Joined == run.done = Subtasks

\* Run returns: m.wakeupTime = findEarliest(...)
RunReturn ==
  /\ run.state = "running"
  /\ Joined
  /\ run' = [run EXCEPT !.state = "idle", !.done = {}, !.called = {}, !.failed = {},
                         !.given = NoGiven]
  /\ mgr' = [mgr EXCEPT !.wakeupTime =
                findEarliest(<<mgr.wakeupListSegs, mgr.wakeupListE2Es, wakeupKeeper,
                               mgr.wakeupExpirer, mgr.wakeupAdmissionList>>)]
  /\ UNCHANGED <<vars, mvars, now, entries, phase, wakeupKeeper, oneShot, slots>>

\* the clock moves: between Runs to wakeupTime, during a Run by a second
ClockMoves ==
  /\ \/ run.state = "idle" /\ now < mgr.wakeupTime /\ now' = mgr.wakeupTime
     \/ run.state = "running" /\ now = run.now /\ now' = now + 1
  /\ run.n < MaxRuns
  /\ UNCHANGED <<vars, mvars, gvars, entries, phase, wakeupKeeper, oneShot, slots>>

GNext ==
  \/ RunStart
  \/ SubListSegs
  \/ SubListE2Es
  \/ SubKeeper
  \/ SubExpirer
  \/ SubAdmission
  \/ RunReturn
  \/ ClockMoves

SpecManager == GInit /\ [][GNext]_allvars

(***************************************************************************)
(* The path specification: DeriveColibriPath applied to a reservation of    *)
(* any path type, with or without an active index, whose active token has   *)
(* MinHops..MaxHops hop fields.                                             *)
(***************************************************************************)
PInit ==
  /\ rsv = NewReservation
  /\ last = Call("none", 0, NoErr, 0)
  /\ KeeperIdle
  /\ match = NoMatch
  /\ \E pathType \in {UpPath, DownPath, CorePath}, has \in BOOLEAN, token \in Tokens :
       derive = [NoDerive EXCEPT !.pathType = pathType, !.has = has, !.token = token]
  /\ ManagerIdle

DoDerive ==
  /\ ~derive.done
  /\ derive' = [derive EXCEPT !.done = TRUE,
                  !.path = DeriveColibriPath(derive.pathType, derive.has, derive.token)]
  /\ UNCHANGED <<vars, kvars, gvars, match>>

PNext == DoDerive

SpecPath == PInit /\ [][PNext]_allvars

(***************************************************************************)
(* The ring specification: one reservation renewed again and again with    *)
(* the index number NextIndexToRenew gives, each renewal confirmed, and     *)
(* activated at any of its indices: the list grows to the 16 indices of     *)
(* the ring and its numbers run over the ring's end.                        *)
(***************************************************************************)
RInit ==
  /\ rsv = NewReservation
  /\ last = Call("none", 0, NoErr, 0)
  /\ KeeperIdle
  /\ match = NoMatch
  /\ derive = NoDerive
  /\ ManagerIdle

\* a renewal as the keeper asks for it (askNewIndices), granted by the store
RingRenew ==
  /\ LET req == PrepareRenewalRequest(rsv, now, ExpFar)
         res == SetupRequest(rsv, TRUE, KeeperConf, req, "ok")
     IN  /\ rsv' = res.rsv
         /\ last' = Call("NewIndex", req.index, res.err, Removed(rsv, res.rsv))
  /\ UNCHANGED <<kvars, mvars, gvars>>

RingActivate ==
  /\ \E idx \in 0..(RingSize - 1) :
       LET res == SetIndexActive(rsv, idx)
       IN  /\ rsv' = res.rsv
           /\ last' = Call("SetIndexActive", idx, res.err, Removed(rsv, res.rsv))
  /\ UNCHANGED <<kvars, mvars, gvars>>

RNext ==
  \/ RingRenew
  \/ RingActivate

SpecRing == RInit /\ [][RNext]_allvars

(***************************************************************************)
(* Properties of the reservation mutators.                                 *)
(***************************************************************************)
\* positions (0-based) of the Active indices of a reservation
ActivePositions(r) ==
  {p \in 0..(Len(r.Indices) - 1) : r.Indices[p + 1].State = IndexActive}

\* C1: after any sequence of NewIndex, SetIndexConfirmed, SetIndexActive,
\* SetIndexInactive and RemoveIndex on a new reservation, activeIndex is -1
\* or 0, at most one index is Active, and an Active index is at position 0
\* with activeIndex = 0.
C1_SingleActiveAtZero ==
  /\ rsv.activeIndex \in {-1, 0}
  /\ Cardinality(ActivePositions(rsv)) <= 1
  /\ \A p \in ActivePositions(rsv) : p = 0 /\ rsv.activeIndex = 0

\* an index was activated from the middle of the list: its predecessors
\* are gone, it is the only Active index, and it has a follower
C1_Witness ==
  /\ last.op = "SetIndexActive"
  /\ last.err = NoErr
  /\ last.removed >= 1
  /\ Len(rsv.Indices) >= 2
  /\ ActivePositions(rsv) = {0}

\* the number of indices a step removed from the front of the list
Dropped(pre, post) ==
  IF Len(post.Indices) = Len(pre.Indices) + 1
  THEN 0
  ELSE Len(pre.Indices) - Len(post.Indices)

\* the state of the index numbered idx in r, "none" when r has no such index
StateOf(r, idx) ==
  LET hits == {p \in 1..Len(r.Indices) : r.Indices[p].Idx = idx}
  IN  IF hits = {} THEN "none" ELSE r.Indices[CHOOSE p \in hits : TRUE].State

\* C2: in every step an index either keeps its state or moves
\* Temporary->Pending by SetIndexConfirmed, Pending->Active by SetIndexActive
\* or Active->Pending by SetIndexInactive; an index NewIndex adds is
\* Temporary; SetIndexActive on a Temporary index and SetIndexConfirmed on an
\* Active index return an error.
C2_StateTransitions ==
  [][LET d == Dropped(rsv, rsv')
     IN  /\ d >= 0
         /\ \A p \in 1..Len(rsv'.Indices) :
              IF p + d > Len(rsv.Indices)
              THEN /\ last'.op = "NewIndex"
                   /\ rsv'.Indices[p].State = IndexTemporary
              ELSE LET old == rsv.Indices[p + d]
                       new == rsv'.Indices[p]
                   IN  /\ new = [old EXCEPT !.State = new.State]
                       /\ old.State # new.State =>
                            \/ /\ old.State = IndexTemporary
                               /\ new.State = IndexPending
                               /\ last'.op = "SetIndexConfirmed"
                            \/ /\ old.State = IndexPending
                               /\ new.State = IndexActive
                               /\ last'.op = "SetIndexActive"
                            \/ /\ old.State = IndexActive
                               /\ new.State = IndexPending
                               /\ last'.op = "SetIndexInactive"
         /\ (last'.op = "SetIndexActive" /\ StateOf(rsv, last'.idx) = IndexTemporary)
              => last'.err # NoErr
         /\ (last'.op = "SetIndexConfirmed" /\ StateOf(rsv, last'.idx) = IndexActive)
              => last'.err # NoErr
    ]_vars

\* a Pending index that had been confirmed from Temporary was activated, with
\* a Temporary index still in the list
C2_Witness ==
  /\ last.op = "SetIndexActive"
  /\ last.err = NoErr
  /\ ActivePositions(rsv) = {0}
  /\ \E p \in 1..Len(rsv.Indices) : rsv.Indices[p].State = IndexTemporary

\* the position (0-based) of the index numbered idx in r
PositionOf(r, idx) ==
  CHOOSE p \in 0..(Len(r.Indices) - 1) : r.Indices[p + 1].Idx = idx

\* C3: a successful SetIndexActive(n) whose target is at position k removes
\* exactly the indices at positions 0..k-1, leaves the target at position 0
\* with state Active and activeIndex = 0, and keeps the followers of the
\* target unchanged and in order.
C3_ActivatePrunes ==
  [][(last'.op = "SetIndexActive" /\ last'.err = NoErr) =>
       LET k == PositionOf(rsv, last'.idx)
       IN  /\ Len(rsv'.Indices) = Len(rsv.Indices) - k
           /\ rsv'.Indices[1] = [rsv.Indices[k + 1] EXCEPT !.State = IndexActive]
           /\ rsv'.activeIndex = 0
           /\ \A j \in 2..Len(rsv'.Indices) : rsv'.Indices[j] = rsv.Indices[k + j]
    ]_vars

\* the middle index of a list of three was activated: one index was pruned
\* and one follower is kept
C3_Witness ==
  /\ last.op = "SetIndexActive"
  /\ last.err = NoErr
  /\ last.removed = 1
  /\ Len(rsv.Indices) = 2
  /\ rsv.Indices[1].Idx = last.idx
  /\ rsv.Indices[1].State = IndexActive

(***************************************************************************)
(* Properties of compliance.                                               *)
(***************************************************************************)
\* positions (1-based) of the indices that pass the compliance filter, the
\* expiration compared with Geq (>= when TRUE, > when FALSE)
Passing(r, c, until, Geq) ==
  {p \in 1..Len(r.Indices) :
     /\ r.Indices[p].MinBW >= c.minBW
     /\ r.Indices[p].MaxBW <= c.maxBW
     /\ r.Indices[p].State \in {IndexPending, IndexActive}
     /\ IF Geq THEN r.Indices[p].Expiration >= until
               ELSE r.Indices[p].Expiration > until}

\* the classification the claim describes, from the passing positions: an
\* index is switchable from the active one iff there is no active index or it
\* lies after it
Classified(r, pass, res) ==
  LET allSwitchable == \A p \in pass : r.activeIndex = -1 \/ p - 1 > r.activeIndex
  IN  /\ (res = NeedsIndices) <=> (pass = {})
      /\ pass # {} => ((res = NeedsActivation) <=> allSwitchable)
      /\ (pass # {} /\ ~allSwitchable) =>
            (res = Compliant /\ (r.activeIndex + 1) \in pass)
      /\ res \in {NeedsIndices, NeedsActivation, Compliant}

\* C4 as stated: the filter keeps the indices with expiration >= until.
C4_AsStated ==
  last.op = "compliance" =>
    Classified(rsv, Passing(rsv, last.conf, last.until, TRUE), last.res)

\* C4, amended: the filter keeps the indices with MinBW >= conf.minBW,
\* MaxBW <= conf.maxBW, state Pending or Active and expiration > until (an
\* index expiring exactly at until does not count); NeedsIndices iff none
\* passes; otherwise NeedsActivation iff every passing index is switchable
\* from the active index; otherwise the active index passes and the result
\* is Compliant.
C4_Compliance ==
  last.op = "compliance" =>
    Classified(rsv, Passing(rsv, last.conf, last.until, FALSE), last.res)

\* a reservation with an active index that passes and a Temporary follower
\* was classified Compliant
C4_Witness ==
  /\ last.op = "compliance"
  /\ last.res = Compliant
  /\ Len(rsv.Indices) >= 2
  /\ rsv.Indices[2].State = IndexTemporary

(***************************************************************************)
(* Properties of the keeper, under SpecKeeper.                             *)
(***************************************************************************)
\* the tasks that have returned
Done == {i \in 1..Len(entries) : entries[i].pc = "done"}

\* C5 (as stated): for an entry that already has a reservation, one
\* keepReservation call issues at most one request to the collaborators: none
\* when the compliance is Compliant, one SetupRequest and no ActivateRequest
\* when it is NeedsIndices, one ActivateRequest and no SetupRequest when it is
\* NeedsActivation; and in the NeedsActivation case with a single Pending
\* index and a successful request, that index ends Active at position 0 with
\* activeIndex = 0.
C5_AsStated ==
  \A i \in Done :
    LET e == entries[i] IN
    e.hadRsv =>
      /\ e.nSetup + e.nActivate <= 1
      /\ e.class = Compliant => e.nSetup = 0 /\ e.nActivate = 0
      /\ e.class = NeedsIndices => e.nSetup = 1 /\ e.nActivate = 0
      /\ e.class = NeedsActivation => e.nSetup = 0 /\ e.nActivate = 1
      /\ ( /\ e.class = NeedsActivation
           /\ Len(e.pre.Indices) = 1
           /\ e.pre.Indices[1].State = IndexPending
           /\ e.err = NoErr )
         => /\ e.rsv.activeIndex = 0
            /\ e.rsv.Indices = <<[e.pre.Indices[1] EXCEPT !.State = IndexActive]>>

\* C6: activateIndex marks the target Active in the reservation before the
\* ActivateRequest is out; when the ActivateRequest fails, the task returns
\* that error with no index of the reservation Active, activeIndex = -1 and
\* the target Pending.
C6_ActivateThenRollback ==
  \A i \in 1..Len(entries) :
    LET e == entries[i] IN
    /\ e.nActivate > 0 /\ e.pc = "activate" =>
         /\ e.rsv.activeIndex = 0
         /\ e.rsv.Indices[1].Idx = e.actReq.index
         /\ e.rsv.Indices[1].State = IndexActive
    /\ e.nActivate > 0 /\ e.pc = "done" /\ e.err # NoErr =>
         /\ e.err = ErrActivate
         /\ e.rsv.activeIndex = -1
         /\ ActivePositions(e.rsv) = {}
         /\ StateOf(e.rsv, e.actReq.index) = IndexPending

C6_Witness ==
  \E i \in Done :
    /\ entries[i].err = ErrActivate
    /\ ActiveIndex(entries[i].pre) # NilIndex
    /\ phase = "sleep"

\* C7: an entry classified Compliant at a tick at time t has an Active index
\* that is unexpired at every time up to the next tick that is no later than
\* t + sleepAtMost.
C7_ActiveOutlivesSleep ==
  \A i \in Done :
    LET e == entries[i] IN
    e.class = Compliant =>
      \A t \in e.tnow..(e.tnow + sleepAtMost) :
        (t <= now \/ (phase = "sleep" /\ t <= wakeupKeeper)) =>
          /\ ActiveIndex(e.rsv) # NilIndex
          /\ ActiveIndex(e.rsv).Expiration > t

C7_Witness ==
  /\ phase = "sleep"
  /\ now = wakeupKeeper
  /\ \E i \in Done : /\ entries[i].class = Compliant
                     /\ now = entries[i].tnow + sleepAtMost

\* C8: when keepReservation returned an error for some entry, OneShot returns
\* now + sleepAtLeast and an error, whatever the other entries returned, and
\* the manager has set wakeupKeeper to that time and goes on.
C8_ErrorShortensSleep ==
  (phase = "sleep" /\ \E i \in Done : entries[i].err # NoErr) =>
     /\ oneShot.err
     /\ oneShot.time = oneShot.at + sleepAtLeast
     /\ wakeupKeeper = oneShot.time

C8_Witness ==
  /\ phase = "sleep"
  /\ now = wakeupKeeper
  /\ \E i, j \in Done : entries[i].err # NoErr /\ entries[j].err = NoErr

\* the least of a non-empty set of instants
Earliest(S) == CHOOSE t \in S : \A u \in S : t <= u

\* C9: when no entry errors, OneShot returns the minimum of the entries'
\* wake-up times, clamped above at now + sleepAtMost and below at
\* now + sleepAtLeast, so a time in [now + sleepAtLeast, now + sleepAtMost],
\* for any number of entries, zero included.
C9_ClampedMinimum ==
  (phase = "sleep" /\ \A i \in Done : entries[i].err = NoErr) =>
     LET lo == oneShot.at + sleepAtLeast
         hi == oneShot.at + sleepAtMost
         m == IF Done = {} THEN hi ELSE Earliest({entries[i].time : i \in Done})
     IN  /\ ~oneShot.err
         /\ oneShot.time = IF m > hi THEN hi ELSE IF m < lo THEN lo ELSE m
         /\ lo <= oneShot.time /\ oneShot.time <= hi

C9_Witness ==
  /\ phase = "sleep"
  /\ Len(entries) = 2
  /\ \A i \in Done : entries[i].err = NoErr
  /\ \E i \in Done : oneShot.time = entries[i].time
  /\ oneShot.time > oneShot.at + sleepAtLeast
  /\ oneShot.time < oneShot.at + sleepAtMost

\* entry i had no reservation, the router gave it a path that matches and
\* every call of a collaborator succeeded
FreshAndAllOk(i) ==
  /\ entries[i].pc = "done"
  /\ ~entries[i].hadRsv
  /\ entries[i].npaths >= 1
  /\ entries[i].allOk

\* C10: for an entry without reservation, when the router returns a matching
\* path and every collaborator call succeeds, one OneShot issues exactly one
\* SetupRequest, the entry's reservation then holds one Active index that
\* expires at now + newIndexMinDuration, and the wake-up OneShot returns is
\* at least now + sleepAtMost.
C10_NewReservation ==
  /\ \A i \in 1..Len(entries) :
       FreshAndAllOk(i) =>
         LET e == entries[i] IN
         /\ e.nSetup = 1
         /\ e.setupReq = Request(0, e.tnow + newIndexMinDuration, 1)
         /\ e.has
         /\ e.rsv.activeIndex = 0
         /\ Len(e.rsv.Indices) = 1
         /\ e.rsv.Indices[1].State = IndexActive
         /\ e.rsv.Indices[1].Expiration = e.tnow + newIndexMinDuration
         /\ e.err = NoErr
  /\ ( /\ phase = "sleep"
       /\ Len(entries) >= 1
       /\ \A i \in 1..Len(entries) : FreshAndAllOk(i) )
     => \A i \in 1..Len(entries) : wakeupKeeper >= entries[i].tnow + sleepAtMost

C10_Witness ==
  /\ phase = "sleep"
  /\ Len(entries) >= 1
  /\ \A i \in 1..Len(entries) : FreshAndAllOk(i) /\ entries[i].npaths = 1

\* C11: askNewReservation issues its SetupRequests one at a time in the order
\* of the filtered paths, each for index number 0 expiring at
\* now + newIndexMinDuration, and stops at the first one that yields a
\* reservation: that reservation is the entry's, also when the request
\* returned an error with it, and no later path gets a request.
C11_FirstYieldWins ==
  \A i \in 1..Len(entries) :
    LET e == entries[i] IN
    /\ e.pc = "setup" =>
         /\ ~e.hadRsv /\ ~e.has
         /\ 1 <= e.nSetup /\ e.nSetup <= e.npaths
         /\ e.nSetup = e.npaths - e.left
         /\ e.setupReq = Request(0, e.tnow + newIndexMinDuration, e.nSetup)
         /\ e.ret.kind = "new" => ~e.ret.has /\ e.ret.path = e.nSetup - 1
    /\ e.ret.kind = "new" /\ e.ret.has =>
         /\ e.has /\ e.pc # "setup"
         /\ e.nSetup = e.ret.path + (IF e.pc = "renew" THEN 1 ELSE 0)
         /\ FindIndex(e.rsv.Indices, 0).err = NoErr
         /\ e.rsv.Indices[FindIndex(e.rsv.Indices, 0).pos + 1].Expiration
              = e.tnow + newIndexMinDuration
         /\ e.ret.err # NoErr =>
              /\ e.pc = "done" /\ e.err = e.ret.err
              /\ Len(e.rsv.Indices) = 1
              /\ e.rsv.Indices[1].State = IndexTemporary

C11_Witness ==
  \E i \in Done :
    /\ entries[i].ret.kind = "new"
    /\ entries[i].ret.has /\ entries[i].ret.err # NoErr
    /\ entries[i].ret.path = 1
    /\ entries[i].npaths = 2

\* C12: when the filtered list of paths is empty or every SetupRequest over
\* it fails without yielding a reservation, askNewReservation returns the
\* no-path error, the entry stays without reservation and no ActivateRequest
\* is issued for it in the tick.
C12_NoPathNoReservation ==
  \A i \in Done :
    LET e == entries[i] IN
    ( /\ ~e.hadRsv
      /\ e.err # ErrRouter
      /\ e.left = 0
      /\ e.ret.kind = "none" \/ (e.ret.kind = "new" /\ ~e.ret.has) )
    => /\ e.err = ErrNoPath
       /\ ~e.has
       /\ e.nActivate = 0
       /\ e.nSetup = e.npaths

C12_Witness ==
  \E i, j \in Done :
    /\ entries[i].err = ErrNoPath /\ entries[i].npaths = 0
    /\ entries[j].err = ErrNoPath /\ entries[j].npaths = MaxPaths

\* C13 (as stated): manager.SetupRequest returns without error only if the
\* setup and the confirmation both succeeded: then req.Reservation is the
\* resulting reservation and the requested index is Pending.
C13_AsStated ==
  \A i \in 1..Len(entries) :
    LET e == entries[i] IN
    (e.ret.kind # "none" /\ e.ret.err = NoErr) =>
       e.ret.has /\ e.ret.state = IndexPending

(***************************************************************************)
(* Properties of the matching, under SpecMatch.                            *)
(***************************************************************************)
\* positions of the entries, reservations and configurations of the call
EntryPos == 1..Len(match.entries)

RsvPos == 1..Len(match.rsvs)

ConfPos == 1..Len(match.confs)

\* reservation r and configuration c agree in destination, path type,
\* traffic split and end properties, and the predicate of c accepts the
\* interfaces of r
Agree(r, c) ==
  /\ r.dst = c.dst
  /\ r.pathType = c.pathType
  /\ r.split = c.splitCls
  /\ r.endProps = c.endProps
  /\ r.ifaces \in c.predicate

\* the entries as pairs <<configuration, reservation>> of identities
PairsOf(es) == { <<es[k].conf.id, es[k].rsv.id>> : k \in 1..Len(es) }

\* the configurations (by position) no reservation before position k holds
FreeBefore(k) ==
  { p \in ConfPos :
      \A j \in 1..(k - 1) : <<match.confs[p].id, match.rsvs[j].id>> \notin PairsOf(match.entries) }

\* C14: matchRsvsWithConfiguration returns one entry per configuration,
\* whatever the reservations, and no configuration is in two entries.
C14_OneEntryPerConf ==
  match.done =>
    /\ Len(match.entries) = Len(match.confs)
    /\ \A p \in ConfPos : \E k \in EntryPos : match.entries[k].conf = match.confs[p]
    /\ \A k, l \in EntryPos : k # l => match.entries[k].conf.id # match.entries[l].conf.id

C14_Witness ==
  /\ match.done
  /\ Len(match.rsvs) = 2 /\ Len(match.confs) = 2
  /\ Agree(match.rsvs[1], match.confs[1]) /\ Agree(match.rsvs[2], match.confs[1])
  /\ ~Agree(match.rsvs[2], match.confs[2])
  /\ PairsOf(match.entries) = { <<match.confs[1].id, match.rsvs[1].id>>,
                                <<match.confs[2].id, 0>> }

\* C15: an entry that carries a reservation pairs it with a configuration of
\* equal destination, path type, traffic split and end properties whose
\* predicate accepts the reservation's interfaces; a reservation is in at most
\* one entry, and one that agrees with no configuration left to it is in none.
C15_EntriesCompatible ==
  match.done =>
    /\ \A k \in EntryPos :
         match.entries[k].rsv # NilRsv =>
           /\ Agree(match.entries[k].rsv, match.entries[k].conf)
           /\ \E j \in RsvPos : match.rsvs[j] = match.entries[k].rsv
           /\ \A l \in EntryPos : match.entries[l].rsv = match.entries[k].rsv => l = k
    /\ \A j \in RsvPos :
         (\A p \in FreeBefore(j) : ~Agree(match.rsvs[j], match.confs[p])) =>
           \A k \in EntryPos : match.entries[k].rsv # match.rsvs[j]

C15_Witness ==
  /\ match.done
  /\ Len(match.rsvs) = 2 /\ Len(match.confs) = 1
  /\ match.rsvs[1].ifaces \notin match.confs[1].predicate
  /\ match.rsvs[2].ifaces \in match.confs[1].predicate
  /\ match.entries = <<Entry(match.confs[1], match.rsvs[2])>>

\* C16: the reservations are served in their order; each gets the first (in
\* the order of the configurations) configuration that agrees with it and that
\* no earlier reservation holds; every configuration left over gets an entry
\* without reservation.
C16_GreedyInOrder ==
  match.done =>
    /\ \A j \in RsvPos :
         LET cand == { p \in FreeBefore(j) : Agree(match.rsvs[j], match.confs[p]) }
         IN  cand # {} =>
               LET first == CHOOSE p \in cand : \A q \in cand : p <= q
               IN  <<match.confs[first].id, match.rsvs[j].id>> \in PairsOf(match.entries)
    /\ \A p \in ConfPos :
         (\A j \in RsvPos : <<match.confs[p].id, match.rsvs[j].id>> \notin PairsOf(match.entries))
           => <<match.confs[p].id, 0>> \in PairsOf(match.entries)
    /\ \A k, l \in EntryPos :
         (k < l /\ match.entries[l].rsv # NilRsv) =>
           /\ match.entries[k].rsv # NilRsv
           /\ \E i, j \in RsvPos : /\ i < j
                                   /\ match.rsvs[i] = match.entries[k].rsv
                                   /\ match.rsvs[j] = match.entries[l].rsv

C16_Witness ==
  /\ match.done
  /\ Len(match.rsvs) = 1 /\ Len(match.confs) = 2
  /\ [match.confs[1] EXCEPT !.id = 0] = [match.confs[2] EXCEPT !.id = 0]
  /\ match.entries = << Entry(match.confs[1], match.rsvs[1]),
                        Entry(match.confs[2], NilRsv) >>

\* the list in the opposite order
Reversed(q) == [k \in 1..Len(q) |-> q[Len(q) + 1 - k]]

\* two reservations and two configurations, the first reservation agreeing
\* only with configuration a, the second only with configuration b
OneToOne(a, b) ==
  /\ Len(match.rsvs) = 2 /\ Len(match.confs) = 2
  /\ {a, b} = {1, 2}
  /\ Agree(match.rsvs[1], match.confs[a]) /\ ~Agree(match.rsvs[1], match.confs[b])
  /\ Agree(match.rsvs[2], match.confs[b]) /\ ~Agree(match.rsvs[2], match.confs[a])

\* C17: for reservations R1, R2 and configurations C1, C2 with R1 agreeing
\* only with C1 and R2 only with C2, the entries pair C1 with R1 and C2 with
\* R2 whichever way round the configurations are given.
C17_ConfOrderIrrelevant ==
  \A a, b \in {1, 2} :
    (match.done /\ OneToOne(a, b)) =>
      /\ PairsOf(match.entries) = { <<match.confs[a].id, match.rsvs[1].id>>,
                                    <<match.confs[b].id, match.rsvs[2].id>> }
      /\ Len(match.entries) = 2
      /\ PairsOf(matchRsvsWithConfiguration(match.rsvs, Reversed(match.confs)))
           = PairsOf(match.entries)

C17_Witness ==
  /\ match.done
  /\ OneToOne(2, 1)
  /\ match.rsvs[1].split = 1 /\ match.rsvs[2].split = 2

(***************************************************************************)
(* Errors of the mutators, under Spec.                                     *)
(***************************************************************************)
\* C20: a call of NewIndex, SetIndexConfirmed, SetIndexActive or RemoveIndex
\* that returns an error (validation of the trial list, wrong state, index
\* number not found) leaves the index list, the states and activeIndex as
\* they were.
C20_ErrorsLeaveUnchanged ==
  [][ ( /\ last'.op \in {"NewIndex", "SetIndexConfirmed", "SetIndexActive", "RemoveIndex"}
        /\ last'.err # NoErr )
      => rsv' = rsv ]_vars

C20_Witness ==
  /\ last.op = "SetIndexActive"
  /\ last.err = ErrState
  /\ Len(rsv.Indices) = 3
  /\ rsv.activeIndex = 0
  /\ StateOf(rsv, last.idx) = IndexTemporary

(***************************************************************************)
(* Monotonic activation, under Spec.                                       *)
(***************************************************************************)
\* idx is the number of an index older than the active one: the last call
\* activated the index now at position 0 and pruned idx on the way
OlderThanActive(idx) ==
  /\ last.op = "SetIndexActive"
  /\ last.err = NoErr
  /\ last.removed >= 1
  /\ rsv.activeIndex = 0
  /\ IdxSub(rsv.Indices[1].Idx, idx) \in 1..last.removed

C22_ActivateIdempotent ==
  (last.op = "SetIndexActive" /\ last.again) =>
     /\ last.err = NoErr
     /\ last.same
     /\ rsv.activeIndex = 0
     /\ rsv.Indices[1].Idx = last.idx
     /\ rsv.Indices[1].State = IndexActive

\* the second of two calls SetIndexActive(n) has returned, on a reservation
\* that keeps a follower of the active index
C22_Witness ==
  /\ last.op = "SetIndexActive"
  /\ last.again
  /\ last.err = NoErr
  /\ Len(rsv.Indices) >= 2
  /\ ActivePositions(rsv) = {0}

(***************************************************************************)
(* The order and the bandwidths of the indices, under Spec.                *)
(***************************************************************************)
\* C23: after every mutator the index numbers of consecutive indices ascend
\* modulo 16 (each is its predecessor's plus one) and the expirations do not
\* decrease; a NewIndex whose index number or expiration would break the
\* order returns a validation error and adds nothing.
C23_IndicesOrdered ==
  /\ \A i \in 1..(Len(rsv.Indices) - 1) :
       /\ rsv.Indices[i + 1].Idx = (rsv.Indices[i].Idx + 1) % 16
       /\ rsv.Indices[i].Expiration <= rsv.Indices[i + 1].Expiration
  /\ (last.op = "NewIndex" /\ ~last.inOrder) =>
       (last.err = ErrValidation /\ last.same)

\* a list that runs over the end of the ring (15, 0) refused an index out
\* of order
C23_Witness ==
  /\ last.op = "NewIndex"
  /\ ~last.inOrder
  /\ last.inRange
  /\ last.err = ErrValidation
  /\ Len(rsv.Indices) = 2
  /\ rsv.Indices[1].Idx = 15
  /\ rsv.Indices[2].Idx = 0

C25_RemovePrefix ==
  [][(last'.op = "RemoveIndex" /\ last'.err = NoErr) =>
       LET k == PositionOf(rsv, last'.idx)
       IN  /\ Len(rsv'.Indices) = Len(rsv.Indices) - (k + 1)
           /\ \A j \in 1..Len(rsv'.Indices) : rsv'.Indices[j] = rsv.Indices[j + k + 1]
           /\ rsv.activeIndex <= k => rsv'.activeIndex = -1
           /\ rsv.activeIndex > k =>
                /\ rsv'.activeIndex = rsv.activeIndex - (k + 1)
                /\ rsv'.Indices[rsv'.activeIndex + 1] = rsv.Indices[rsv.activeIndex + 1]
    ]_vars

\* the second index of a list of three was removed, and the first with it:
\* the third is left and no index is active
C25_Witness ==
  /\ last.op = "RemoveIndex"
  /\ last.err = NoErr
  /\ last.removed = 2
  /\ Len(rsv.Indices) = 1
  /\ rsv.activeIndex = -1
  /\ rsv.Indices[1].Idx = IdxAdd(last.idx, 1)

(***************************************************************************)
(* The ring of index numbers, under SpecRing.                              *)
(***************************************************************************)
\* C26: NextIndexToRenew is 0 for a reservation without indices and
\* otherwise the number of the last index plus 1 modulo 16, so 0 after 15;
\* on a reservation with the 16 indices 0..15 SetIndexActive(15) leaves
\* index 15 alone, Active at position 0, and NextIndexToRenew is then 0.
C26_RenewAroundTheRing ==
  /\ NextIndexToRenew(rsv) =
       IF Len(rsv.Indices) = 0 THEN 0
       ELSE (rsv.Indices[Len(rsv.Indices)].Idx + 1) % 16
  /\ (last.op = "SetIndexActive" /\ last.err = NoErr /\ last.idx = 15
      /\ last.removed = 15) =>
       /\ Len(rsv.Indices) = 1
       /\ rsv.Indices[1].Idx = 15
       /\ rsv.Indices[1].State = IndexActive
       /\ rsv.activeIndex = 0
       /\ NextIndexToRenew(rsv) = 0

\* the last of the sixteen indices 0..15 has been activated
C26_Witness ==
  /\ last.op = "SetIndexActive"
  /\ last.err = NoErr
  /\ last.idx = 15
  /\ last.removed = 15
  /\ Len(rsv.Indices) = 1
  /\ NextIndexToRenew(rsv) = 0

(***************************************************************************)
(* NextIndexToActivate and compliance over time, under Spec.               *)
(***************************************************************************)
\* positions (0-based) of the Pending indices after the active index
PendingAfterActive(r) ==
  {p \in (r.activeIndex + 1)..(Len(r.Indices) - 1) : r.Indices[p + 1].State = IndexPending}

\* C27 (as stated): NextIndexToActivate returns the first Pending index
\* after the active index or, with no active index, the last index of the
\* list; none when the list is empty or there is no such index.
C27_AsStated ==
  NextIndexToActivate(rsv) =
    IF Len(rsv.Indices) = 0 THEN NilIndex
    ELSE IF rsv.activeIndex < 0 THEN rsv.Indices[Len(rsv.Indices)]
    ELSE IF PendingAfterActive(rsv) = {} THEN NilIndex
    ELSE rsv.Indices[(CHOOSE p \in PendingAfterActive(rsv) :
                        \A q \in PendingAfterActive(rsv) : p <= q) + 1]

\* C28: a reservation whose only index is Active, has its bandwidths within
\* the configuration's and expires exactly at until is classified
\* NeedsIndices by compliance(entry, until).
C28_ExpiringAtUntil ==
  ( /\ last.op = "compliance"
    /\ Len(rsv.Indices) = 1
    /\ rsv.activeIndex = 0
    /\ rsv.Indices[1].State = IndexActive
    /\ rsv.Indices[1].MinBW >= last.conf.minBW
    /\ rsv.Indices[1].MaxBW <= last.conf.maxBW
    /\ rsv.Indices[1].Expiration = last.until )
  => last.res = NeedsIndices

\* such a reservation was classified, at an instant after the first
C28_Witness ==
  /\ last.op = "compliance"
  /\ last.res = NeedsIndices
  /\ ~last.again
  /\ last.until = 1
  /\ Len(rsv.Indices) = 1
  /\ rsv.Indices[1].State = IndexActive
  /\ rsv.Indices[1].MinBW >= last.conf.minBW
  /\ rsv.Indices[1].MaxBW <= last.conf.maxBW
  /\ rsv.Indices[1].Expiration = 1

\* C29 as stated: a reservation classified Compliant at time t is classified
\* Compliant at every t + d with d < minDuration / 2 when no mutator runs in
\* between (the classification at time t is compliance(entry, t + minDuration)).
C29_AsStated ==
  (last.op = "compliance" /\ last.again) => last.res = Compliant

\* C29, amended: a reservation classified Compliant at time t is classified
\* Compliant at t + d, no mutator running in between, if and only if its
\* active index expires after t + d + minDuration.
C29_CompliantWhileActiveLasts ==
  (last.op = "compliance" /\ last.again) =>
     (last.res = Compliant <=> ActiveIndex(rsv).Expiration > last.until)

\* a reservation classified Compliant is no longer so a second later: its
\* active index expires at the new until
C29_Witness ==
  /\ last.op = "compliance"
  /\ last.again
  /\ last.res # Compliant
  /\ rsv.activeIndex = 0
  /\ rsv.Indices[1].Expiration = last.until

(***************************************************************************)
(* The derived path, under SpecPath.                                       *)
(***************************************************************************)
\* the hop fields of a path in the order the network goes through them: the
\* order of the list, or its opposite when the R flag is set
NetworkOrder(p) == IF p.R THEN Reversed(p.HopFields) ELSE p.HopFields

SubDeadlines ==
  {mgr.wakeupListSegs, mgr.wakeupListE2Es, wakeupKeeper, mgr.wakeupExpirer,
   mgr.wakeupAdmissionList}

\* the step is an invocation of Run
Invoked == run'.n = run.n + 1

\* the invocation returned at once: no subtask launched, no collaborator
\* called, no sub-deadline changed
ReturnedAtOnce ==
  /\ run'.state = "idle"
  /\ run'.done = {}
  /\ run'.called = {}
  /\ wakeupKeeper' = wakeupKeeper
  /\ mgr'.wakeupListSegs = mgr.wakeupListSegs
  /\ mgr'.wakeupListE2Es = mgr.wakeupListE2Es
  /\ mgr'.wakeupExpirer = mgr.wakeupExpirer
  /\ mgr'.wakeupAdmissionList = mgr.wakeupAdmissionList

\* C18: a Run invoked while now < wakeupTime returns at once and changes
\* nothing; a Run invoked at or after wakeupTime while the store is not ready
\* sets wakeupTime to now + 2 s and returns; in both cases no subtask is
\* launched, no collaborator is called and the five sub-deadlines stay.
C18_GatedRunDoesNothing ==
  [][Invoked =>
       /\ now < mgr.wakeupTime =>
            ReturnedAtOnce /\ mgr'.wakeupTime = mgr.wakeupTime
       /\ now >= mgr.wakeupTime /\ ~run'.ready =>
            ReturnedAtOnce /\ mgr'.wakeupTime = now + notReadyRetry]_allvars

\* a Run found the store not ready and the next came before now + 2 s: no
\* Run has passed the gates, the sub-deadlines are those of the constructor
C18_Witness ==
  /\ run.gate = "early"
  /\ run.n = 2
  /\ mgr.wakeupTime = now + notReadyRetry
  /\ mgr.wakeupListSegs = ZeroTime
  /\ wakeupKeeper = ZeroTime

\* C19: a Run that passed both gates returns only when all five subtasks
\* have finished, whatever their order, and on return wakeupTime is the
\* minimum of the five sub-deadlines as the subtasks left them.
C19_JoinThenEarliest ==
  [][run.state = "running" /\ run'.state = "idle" =>
       /\ run.done = Subtasks
       /\ wakeupKeeper' = wakeupKeeper /\ mgr'.wakeupExpirer = mgr.wakeupExpirer
       /\ mgr'.wakeupListSegs = mgr.wakeupListSegs
       /\ mgr'.wakeupListE2Es = mgr.wakeupListE2Es
       /\ mgr'.wakeupAdmissionList = mgr.wakeupAdmissionList
       /\ mgr'.wakeupTime \in SubDeadlines
       /\ \A d \in SubDeadlines : mgr'.wakeupTime <= d]_allvars

\* a Run has returned with the admission sweep's deadline the earliest,
\* below the first of the five
C19_Witness ==
  /\ run.state = "idle"
  /\ run.gate = "passed"
  /\ mgr.wakeupTime = mgr.wakeupAdmissionList
  /\ mgr.wakeupTime < mgr.wakeupListSegs
  /\ mgr.wakeupTime < wakeupKeeper
  /\ mgr.wakeupTime < mgr.wakeupExpirer

(***************************************************************************)
(* The index activateIndex picks, under Spec.                              *)
(***************************************************************************)
\* the index passes the filter of compliance for the configuration
PassesFilter(index, c, until) ==
  /\ ByMinBW(index, c.minBW)
  /\ ByMaxBW(index, c.maxBW)
  /\ NotConfirmed(index)
  /\ ByExpiration(index, until)

\* C31 (as stated): whenever compliance(entry, until) returns
\* NeedsActivation, NextIndexToActivate returns an index, that index is
\* Pending and passes the compliance filter, SetIndexActive on it succeeds
\* and the reservation it leaves is classified Compliant, for every
\* reservation the mutators reach.
C31_AsStated ==
  (last.op = "compliance" /\ last.res = NeedsActivation) =>
    LET target == NextIndexToActivate(rsv)
        act == SetIndexActive(rsv, target.Idx)
    IN  /\ target # NilIndex
        /\ target.State = IndexPending
        /\ PassesFilter(target, last.conf, last.until)
        /\ act.err = NoErr
        /\ compliance(Entry(last.conf, act.rsv), last.until) = Compliant

(***************************************************************************)
(* activeIndex and the index states, under Spec.                           *)
(***************************************************************************)
\* C39: after any sequence of mutators activeIndex designates a position of
\* the list or is -1; activeIndex = 0 implies that the index at position 0
\* is Active, activeIndex = -1 that no index is Active; ActiveIndex()
\* returns an index iff some index is Active.
C39_ActiveIndexAgrees ==
  /\ rsv.activeIndex >= -1
  /\ rsv.activeIndex < Len(rsv.Indices) \/ rsv.activeIndex = -1
  /\ rsv.activeIndex = 0 => rsv.Indices[1].State = IndexActive
  /\ rsv.activeIndex = -1 => ActivePositions(rsv) = {}
  /\ (ActiveIndex(rsv) # NilIndex) <=> (ActivePositions(rsv) # {})

\* SetIndexInactive has run on a reservation of two indices or more: no
\* index is Active and activeIndex is -1
C39_Witness ==
  /\ last.op = "SetIndexInactive"
  /\ Len(rsv.Indices) >= 2
  /\ rsv.Indices[1].State = IndexPending
  /\ rsv.activeIndex = -1

(***************************************************************************)
(* The rollback of activateIndex, under SpecKeeper.                        *)
(***************************************************************************)
\* the index numbers a reservation holds, in list order
IdxNumbers(r) == [p \in 1..Len(r.Indices) |-> r.Indices[p].Idx]

\* C32 (as stated): when activateIndex fails because ActivateRequest
\* returned an error, the reservation holds after the rollback the same
\* indices as before the call: those before the target, a previously Active
\* index among them, are not lost.
C32_AsStated ==
  \A i \in Done :
    LET e == entries[i] IN
    (e.hadRsv /\ e.nActivate > 0 /\ e.err = ErrActivate) =>
       IdxNumbers(e.rsv) = IdxNumbers(e.pre)

(***************************************************************************)
(* The fan-out of OneShot, under SpecKeeper.                               *)
(***************************************************************************)
\* the tasks whose entry or slot the step changes
Touched ==
  {i \in 1..Len(entries) : entries'[i] # entries[i] \/ slots'[i] # slots[i]}

\* a slot per entry, assigned once, by the task of its entry as it returns;
\* after OneShot has returned every task has finished, and what it returned
\* is given by the set of the tasks' results
SlotsOfTasks ==
  /\ Len(slots) = Len(entries)
  /\ \A i \in 1..Len(entries) :
       IF entries[i].pc = "done"
       THEN slots[i] = [time |-> entries[i].time, err |-> entries[i].err, writes |-> 1]
       ELSE slots[i] = ZeroSlot
  /\ phase = "sleep" =>
       LET lo == oneShot.at + sleepAtLeast
           hi == oneShot.at + sleepAtMost
           m == Earliest({entries[i].time : i \in 1..Len(entries)} \cup {hi})
       IN  /\ Done = 1..Len(entries)
           /\ oneShot.err = (\E i \in Done : entries[i].err # NoErr)
           /\ oneShot.time = IF oneShot.err \/ m < lo THEN lo ELSE m

\* a step belongs to one task and changes the entry and the slot of that
\* task only; a task that has returned does not run again; OneShot reads the
\* slots in a step of its own, after every task has returned
StepOfOneTask ==
  /\ Len(entries') = Len(entries) /\ Len(slots') = Len(slots)
  /\ Cardinality(Touched) <= 1
  /\ \A i \in Touched : entries[i].pc # "done" /\ oneShot' = oneShot
  /\ oneShot' # oneShot => Done = 1..Len(entries) /\ Touched = {}

\* C33: in OneShot, under every interleaving of the tasks, the task of entry
\* i writes only slot i of times and errs, one task runs per entry, the
\* slots are read only after all tasks have finished, and the time and the
\* error OneShot returns are given by the tasks' results, in whatever order
\* the tasks ran.
C33_SlotPerTask == []SlotsOfTasks /\ [][StepOfOneTask]_allvars

\* the task of the second entry has returned, with an error, before the
\* task of the first has begun: slot 2 is assigned, slot 1 is not
C33_Witness ==
  /\ Len(entries) = 2
  /\ entries[1].pc = "start"
  /\ entries[2].pc = "done"
  /\ slots[2].writes = 1
  /\ slots[2].err # NoErr
  /\ slots[1] = ZeroSlot

(***************************************************************************)
(* The reservations of the entries, under SpecMatch.                       *)
(***************************************************************************)
\* the entries that hold a reservation
WithRsv == {k \in EntryPos : match.entries[k].rsv # NilRsv}

\* C34: the reservations handed to matchRsvsWithConfiguration being pairwise
\* distinct, no reservation is in more than one of the entries it returns:
\* the tasks of two entries never work on the same reservation.
C34_RsvInOneEntry ==
  match.done =>
    /\ \A j, k \in WithRsv :
         match.entries[j].rsv.id = match.entries[k].rsv.id => j = k
    /\ \A k \in WithRsv : \E p \in RsvPos : match.rsvs[p] = match.entries[k].rsv

\* two reservations with the same attributes, two configurations either
\* of them is compatible with: each reservation is in one entry
C34_Witness ==
  /\ match.done
  /\ Len(match.rsvs) = 2 /\ Len(match.confs) = 2
  /\ \A p \in RsvPos, q \in ConfPos : Agree(match.rsvs[p], match.confs[q])
  /\ WithRsv = {1, 2}
  /\ match.entries[1].rsv = match.rsvs[1]
  /\ match.entries[2].rsv = match.rsvs[2]

(***************************************************************************)
(* The greedy matching against the assignments there are, under SpecMatch. *)
(***************************************************************************)
\* the configurations (positions) a reservation agrees with
AgreeingConfs(p) == {q \in ConfPos : Agree(match.rsvs[p], match.confs[q])}

\* some one-to-one assignment pairs every reservation with a configuration
\* it agrees with
Assignable ==
  \E f \in [RsvPos -> ConfPos] :
    /\ \A p \in RsvPos : f[p] \in AgreeingConfs(p)
    /\ \A p, q \in RsvPos : p # q => f[p] # f[q]

\* the reservations (positions) no entry holds
Unmatched ==
  {p \in RsvPos : \A k \in EntryPos : match.entries[k].rsv # match.rsvs[p]}

\* any two reservations agree with the same configurations or share none
SameOrApart ==
  \A p, q \in RsvPos :
    AgreeingConfs(p) = AgreeingConfs(q) \/ AgreeingConfs(p) \cap AgreeingConfs(q) = {}

\* C40 (as stated): if some one-to-one assignment pairs every reservation
\* with a compatible configuration, matchRsvsWithConfiguration leaves no
\* reservation unmatched.
C40_AsStated == (match.done /\ Assignable) => Unmatched = {}

\* C40, amended: a reservation is left unmatched iff every configuration it
\* agrees with is held by an earlier reservation, which can happen although
\* a one-to-one assignment exists; when such an assignment exists and any
\* two reservations agree with the same configurations or share none, no
\* reservation is left unmatched.
C40_DroppedWhenTaken ==
  match.done =>
    /\ \A p \in RsvPos :
         p \in Unmatched <=> AgreeingConfs(p) \cap FreeBefore(p) = {}
    /\ (Assignable /\ SameOrApart) => Unmatched = {}

\* the first reservation agrees with both configurations and took the
\* first, the only one the second agrees with: the second is unmatched,
\* though the other way round both would be kept
C40_Witness ==
  /\ match.done
  /\ Len(match.rsvs) = 2 /\ Len(match.confs) = 2
  /\ AgreeingConfs(1) = {1, 2}
  /\ AgreeingConfs(2) = {1}
  /\ Assignable
  /\ Unmatched = {2}
  /\ match.entries[2] = Entry(match.confs[2], NilRsv)

(***************************************************************************)
(* The request of askNewIndices, under SpecKeeper.                         *)
(***************************************************************************)
\* the SetupRequests the task issued before askNewIndices was called: those
\* of askNewReservation, one for each path up to the one that gave the
\* reservation
SetupsBeforeRenewal(e) == IF e.ret.kind = "new" THEN e.ret.path ELSE 0

GatedTasks == {"keeper", "expirer", "admission"}

\* the deadline of a gated subtask
DeadlineOf(task) ==
  CASE task = "keeper" -> wakeupKeeper
    [] task = "expirer" -> mgr.wakeupExpirer
    [] task = "admission" -> mgr.wakeupAdmissionList

\* the step is the one in which the subtask finishes
Finishes(task) == task \in run'.done /\ task \notin run.done

\* C36: in a Run that passed both gates the keeper subtask and the two
\* sweeps call their collaborator iff the now of the Run has reached their
\* own deadline; a subtask whose deadline is not reached calls nothing and
\* leaves its deadline as it is; a deadline changes only as its subtask
\* calls its collaborator, so OneShot is never invoked before the wake-up
\* time it last returned.
C36_SubtaskGates ==
  [][\A task \in GatedTasks :
       /\ Finishes(task) =>
            /\ run.state = "running" /\ run.gate = "passed"
            /\ IF run.now < DeadlineOf(task)
               THEN task \notin run'.called /\ DeadlineOf(task)' = DeadlineOf(task)
               ELSE task \in run'.called
       /\ DeadlineOf(task)' # DeadlineOf(task) =>
            Finishes(task) /\ task \in run'.called]_allvars

\* in one Run the keeper was not due and called nothing, the sweep of the
\* expired indices was due and ran
C36_Witness ==
  /\ run.state = "running"
  /\ "keeper" \in run.done /\ "keeper" \notin run.called
  /\ "expirer" \in run.called
  /\ run.now < wakeupKeeper

\* the two sweeps
Sweeps == {"expirer", "admission"}

\* the next deadline the store gave to the sweep
GivenTo(task) == IF task = "expirer" THEN run.given.expirer ELSE run.given.admission

\* while a Run is under way every subtask that has not finished can take
\* its step, and the Run can return once all have finished
NotHeldUp ==
  run.state = "running" =>
    /\ "listSegs" \notin run.done => ENABLED SubListSegs
    /\ "listE2Es" \notin run.done => ENABLED SubListE2Es
    /\ "keeper" \notin run.done => ENABLED SubKeeper
    /\ "expirer" \notin run.done => ENABLED SubExpirer
    /\ "admission" \notin run.done => ENABLED SubAdmission
    /\ Joined => ENABLED RunReturn

\* C37: a sweep that runs sets its deadline to the next deadline the store
\* gave, or to now + 8 s when the store gave none, also when the store
\* returned an error; the error leaves the Run under way, stops no other
\* subtask and does not keep Run from returning.
C37_SweepRearms ==
  /\ []NotHeldUp
  /\ [][\A task \in Sweeps :
          (Finishes(task) /\ task \in run'.called) =>
             /\ DeadlineOf(task)' = IF GivenTo(task)' = ZeroTime
                                    THEN run.now + sweepRetry
                                    ELSE GivenTo(task)'
             /\ DeadlineOf(task)' # ZeroTime
             /\ run'.state = "running"
             /\ run'.done = run.done \cup {task}]_allvars

\* all five subtasks have finished, both sweeps with an error of the store:
\* one is re-armed at the deadline the store gave, the other at now + 8 s
C37_Witness ==
  /\ run.state = "running"
  /\ Joined
  /\ run.failed = Sweeps
  /\ mgr.wakeupExpirer = run.given.expirer
  /\ run.given.admission = ZeroTime
  /\ mgr.wakeupAdmissionList = run.now + sweepRetry

(***************************************************************************)
(* The keeper with collaborators that succeed, under SpecTicks.            *)
(***************************************************************************)
\* the entry holds a reservation whose active index passes the filter of
\* compliance at the tick of its task
Kept(e) ==
  /\ e.has
  /\ ActiveIndex(e.rsv) # NilIndex
  /\ PassesFilter(ActiveIndex(e.rsv), KeeperConf, ComplianceUntil(e.tnow))

\* the task got a new index from askNewIndices, the last of the list, Pending
Renewed(e) ==
  /\ e.ret.kind = "renew"
  /\ Len(e.rsv.Indices) >= 1
  /\ e.rsv.Indices[Len(e.rsv.Indices)].Idx = e.setupReq.index
  /\ e.rsv.Indices[Len(e.rsv.Indices)].State = IndexPending

\* C38 (as stated, its part about two ticks): with collaborators that
\* succeed and the next tick at the wake-up time OneShot returned, an entry
\* classified NeedsIndices at one tick has a new Pending index after that
\* tick and an Active index that passes the compliance filter after the
\* following tick.
C38_AsStated ==
  \A i \in 1..Len(entries) :
    LET e == entries[i] IN
    /\ (e.pc = "done" /\ e.class = NeedsIndices) => Renewed(e)
    /\ (e.pc = "done" /\ e.was = NeedsIndices) => Kept(e)

====
